---- MODULE Spec2Model ----
(***************************************************************************)
(* A model of the hierarchical dual-pathway memory (hdpm):                 *)
(*   core_structures.py    AtomicEvidenceCard, PolicyPathway, Insight,     *)
(*                         MemoryStore, HDPM                               *)
(*   memory_processing.py  ReflectAgent                                    *)
(*                                                                         *)
(* Python values are modelled as follows.                                  *)
(*   str       a sequence of one-character strings                         *)
(*   None      the value None                                              *)
(*   datetime  a record [t, aware]: t is the instant, aware tells whether  *)
(*             the datetime carries a UTC offset; comparing an aware with  *)
(*             a naive datetime raises TypeError                           *)
(*   dict      evidence and pathways: a function from the keys; insights:  *)
(*             the sequence of the values in the dict's iteration order    *)
(*             (the order of first insertion)                              *)
(***************************************************************************)
EXTENDS Integers, Sequences, FiniteSets, TLC

VARIABLES
    store,   \* a stand-alone MemoryStore, driven through its own methods
    hdpm,    \* an HDPM: [positive_memory, negative_memory], driven by ReflectAgent
    reflect_agent, \* a ReflectAgent: [llm_simulation_mode]
    clock,   \* what datetime.datetime.now() returns
    uuid,    \* how many uuid4() values have been drawn
    call     \* the last call made: its name, its arguments, what it returned

vars == <<store, hdpm, reflect_agent, clock, uuid, call>>

None == "None"

\* ------------------------------------------------------------------ bounds

MaxTime == 2     \* timestamps of the cards handed to the store: 1..MaxTime
MaxTopK == 3     \* top_k ranges over -1..MaxTopK
MaxClock == 1    \* the latest second datetime.datetime.now() returns
MaxUuid == 8     \* uuid4() values drawn in one behaviour
MaxEntities == 4 \* cards, pathways and insights in an HDPM its callers also add to
LongLen == 160   \* the length of the longest content of a card

\* ------------------------------------------------------------ sequences

Range(s) == {s[k] : k \in 1..Len(s)}

Min(a, b) == IF a < b THEN a ELSE b

\* s[:n] for n >= 0
Take(s, n) == SubSeq(s, 1, Min(n, Len(s)))

\* d[k] = v on a dict modelled as a function
Put(d, k, v) == [x \in (DOMAIN d) \cup {k} |-> IF x = k THEN v ELSE d[x]]

EmptyDict == [x \in {} |-> None]

\* ----------------------------------------------------------------- str

UpperCase ==
    <<"A", "B", "C", "D", "E", "F", "G", "H", "I", "J", "K", "L", "M",
      "N", "O", "P", "Q", "R", "S", "T", "U", "V", "W", "X", "Y", "Z">>

LowerCase ==
    <<"a", "b", "c", "d", "e", "f", "g", "h", "i", "j", "k", "l", "m",
      "n", "o", "p", "q", "r", "s", "t", "u", "v", "w", "x", "y", "z">>

Digits == {"0", "1", "2", "3", "4", "5", "6", "7", "8", "9"}

\* the characters the regular expression classes \w and \s match
IsWordChar(c) == c \in Range(UpperCase) \cup Range(LowerCase) \cup Digits \cup {"_"}

IsSpace(c) == c \in {" ", "\t", "\n", "\r"}

lower_char(c) ==
    IF c \in Range(UpperCase)
    THEN LowerCase[CHOOSE k \in 1..Len(UpperCase) : UpperCase[k] = c]
    ELSE c

\* str.lower
lower(text) == [k \in 1..Len(text) |-> lower_char(text[k])]

\* re.sub(r'[^\w\s-]', '', text)
strip_punctuation(text) ==
    LET Kept(c) == IsWordChar(c) \/ IsSpace(c) \/ c = "-" IN SelectSeq(text, Kept)

\* text.replace('-', ' ')
replace_hyphens(text) == [k \in 1..Len(text) |-> IF text[k] = "-" THEN " " ELSE text[k]]

\* text.split(): the maximal runs of characters that are not whitespace
split(text) ==
    LET Starts(k) == ~IsSpace(text[k]) /\ (k = 1 \/ IsSpace(text[k - 1]))
        Ends(k) == ~IsSpace(text[k]) /\ (k = Len(text) \/ IsSpace(text[k + 1]))
        places == [k \in 1..Len(text) |-> k]
        starts == SelectSeq(places, Starts)
        ends == SelectSeq(places, Ends)
    IN  [n \in 1..Len(starts) |-> SubSeq(text, starts[n], ends[n])]

\* set(re.sub(r'[^\w\s-]', '', text.lower()).replace('-', ' ').split())
\* the terms as they would be without lower()
TermsCaseSensitive(text) == Range(split(replace_hyphens(strip_punctuation(text))))

Terms(text) == Range(split(replace_hyphens(strip_punctuation(lower(text)))))

\* pattern in text
Contains(text, pattern) ==
    \E k \in 0..(Len(text) - Len(pattern)) : SubSeq(text, k + 1, k + Len(pattern)) = pattern

\* text.split(" "): the pieces between single spaces, empty pieces kept
split_on_space(text) ==
    LET IsBlank(k) == text[k] = " "
        blanks == SelectSeq([k \in 1..Len(text) |-> k], IsBlank)
    IN  [n \in 1..(Len(blanks) + 1) |->
            SubSeq(text,
                   IF n = 1 THEN 1 ELSE blanks[n - 1] + 1,
                   IF n = Len(blanks) + 1 THEN Len(text) ELSE blanks[n] - 1)]

DigitChars == <<"0", "1", "2", "3", "4", "5", "6", "7", "8", "9">>

\* str(n) for n >= 0
RECURSIVE IntToStr(_)
IntToStr(n) ==
    IF n < 10 THEN <<DigitChars[n + 1]>>
    ELSE IntToStr(n \div 10) \o <<DigitChars[(n % 10) + 1]>>

\* ------------------------------------------------------------ entities

\* the agent roles
Planner ==
    <<"P", "l", "a", "n", "n", "e", "r">>

Assistant ==
    <<"A", "s", "s", "i", "s", "t", "a", "n", "t">>

Critic ==
    <<"C", "r", "i", "t", "i", "c">>

UnknownAgent ==
    <<"U", "n", "k", "n", "o", "w", "n", "A", "g", "e", "n", "t">>

SystemError ==
    <<"S", "y", "s", "t", "e", "m", "E", "r", "r", "o", "r">>

\* AtomicEvidenceCard.__init__ with every argument given
AtomicEvidenceCard(id, content, agent_type, timestamp) ==
    [id |-> id, content |-> content, agent_type |-> agent_type, timestamp |-> timestamp]

\* PolicyPathway.__init__ with every argument given
PolicyPathway(evidence_card_ids, pathway_id, linked_insight_id) ==
    [id |-> pathway_id, evidence_card_ids |-> evidence_card_ids,
     linked_insight_id |-> linked_insight_id]

\* Insight.__init__ with every argument given
Insight(content, source_pathway_id, insight_id) ==
    [id |-> insight_id, content |-> content, source_pathway_id |-> source_pathway_id]

Naive(t) == [t |-> t, aware |-> FALSE]
Aware(t) == [t |-> t, aware |-> TRUE]

\* A timestamp string is [kind |-> "iso", t, offset], a string that
\* datetime.fromisoformat parses (offset "" gives a naive datetime, any other an
\* aware one), or [kind |-> "text", text], any other string.
isoformat(ts) == [kind |-> "iso", t |-> ts.t, offset |-> IF ts.aware THEN "+00:00" ELSE ""]

fromisoformat_raises(x) == x.kind # "iso"

fromisoformat(x) == [t |-> x.t, aware |-> x.offset # ""]

\* ---------------------------------------------------------- MemoryStore

\* MemoryStore.__init__
MemoryStore == [insights |-> <<>>, pathways |-> EmptyDict, evidence |-> EmptyDict]

InsightIds(s) == {s.insights[k].id : k \in 1..Len(s.insights)}

\* self.insights[insight.id] = insight: an existing key keeps its place in the
\* iteration order, a new key goes last
DictPut(items, x) ==
    IF \E k \in 1..Len(items) : items[k].id = x.id
    THEN [k \in 1..Len(items) |-> IF items[k].id = x.id THEN x ELSE items[k]]
    ELSE Append(items, x)

\* add_evidence_card as it would be if it kept the new card only
add_evidence_card_replacing(s, card) ==
    [s EXCEPT !.evidence = Put(EmptyDict, card.id, card)]

add_evidence_card(s, card) == [s EXCEPT !.evidence = Put(@, card.id, card)]

\* add_policy_pathway as it would be if it linked the pathway to an insight that
\* already names it
add_policy_pathway_relinking(s, pathway) ==
    LET From(i) == i.source_pathway_id = pathway.id
        named == SelectSeq(s.insights, From)
        stored == IF named = <<>> THEN pathway
                  ELSE [pathway EXCEPT !.linked_insight_id = named[Len(named)].id]
    IN  [s EXCEPT !.pathways = Put(@, pathway.id, stored)]

add_policy_pathway(s, pathway) == [s EXCEPT !.pathways = Put(@, pathway.id, pathway)]

\* the branch of add_insight that links (FALSE: the warning is printed)
add_insight_links(s, insight) == insight.source_pathway_id \in DOMAIN s.pathways

\* add_insight as it would be without the link to the source pathway
add_insight_unlinked(s, insight) == [s EXCEPT !.insights = DictPut(@, insight)]

\* add_insight as it would be if it set the link of every stored pathway
add_insight_linking_all(s, insight) ==
    [s EXCEPT !.insights = DictPut(@, insight),
              !.pathways = [p \in DOMAIN @ |-> [@[p] EXCEPT !.linked_insight_id = insight.id]]]

add_insight(s, insight) ==
    LET s1 == [s EXCEPT !.insights = DictPut(@, insight)]
    IN  IF add_insight_links(s, insight)
        THEN [s1 EXCEPT !.pathways[insight.source_pathway_id].linked_insight_id = insight.id]
        ELSE s1

\* self.evidence.get(card_id) is not None
has_evidence_card(s, card_id) == card_id \in DOMAIN s.evidence

\* self.pathways.get(pathway_id) is not None
has_policy_pathway(s, pathway_id) == pathway_id \in DOMAIN s.pathways

\* a < b on datetimes raises TypeError when one is aware and the other naive; a
\* sort of cards compares an aware with a naive timestamp as soon as both occur
Comparable(cards) ==
    \A a, b \in 1..Len(cards) : cards[a].timestamp.aware = cards[b].timestamp.aware

\* the place of card c in the sorted list done: after every card that is not later
RECURSIVE InsertByTimestamp(_, _)
InsertByTimestamp(done, c) ==
    IF done = <<>> THEN <<c>>
    ELSE IF c.timestamp.t < done[Len(done)].timestamp.t
         THEN Append(InsertByTimestamp(SubSeq(done, 1, Len(done) - 1), c), done[Len(done)])
         ELSE Append(done, c)

\* sorted(cards, key=lambda c: c.timestamp): a stable sort
RECURSIVE SortedByTimestamp(_)
SortedByTimestamp(cards) ==
    IF cards = <<>> THEN <<>>
    ELSE InsertByTimestamp(SortedByTimestamp(SubSeq(cards, 1, Len(cards) - 1)),
                           cards[Len(cards)])

\* the cards get_evidence_cards_for_pathway collects before it sorts them
ResolvedCards(s, pathway_id) ==
    LET Found(card_id) == has_evidence_card(s, card_id)
    IN  IF ~has_policy_pathway(s, pathway_id) THEN <<>>
        ELSE LET ids == SelectSeq(s.pathways[pathway_id].evidence_card_ids, Found)
             IN  [k \in 1..Len(ids) |-> s.evidence[ids[k]]]

\* the ids get_evidence_cards_for_pathway prints a warning about
MissingCardIds(s, pathway_id) ==
    LET Missing(card_id) == ~has_evidence_card(s, card_id)
    IN  IF ~has_policy_pathway(s, pathway_id) THEN <<>>
        ELSE SelectSeq(s.pathways[pathway_id].evidence_card_ids, Missing)

get_evidence_cards_raises(s, pathway_id) == ~Comparable(ResolvedCards(s, pathway_id))

\* get_evidence_cards_for_pathway as it would be without the final sort
get_evidence_cards_unsorted(s, pathway_id) == ResolvedCards(s, pathway_id)

get_evidence_cards_for_pathway(s, pathway_id) ==
    SortedByTimestamp(ResolvedCards(s, pathway_id))

\* ------------------------------------------------- to_dict and from_dict

AtomicEvidenceCard_to_dict(card) ==
    [id |-> card.id, content |-> card.content, agent_type |-> card.agent_type,
     timestamp |-> isoformat(card.timestamp)]

AtomicEvidenceCard_from_dict(data) ==
    AtomicEvidenceCard(data.id, data.content, data.agent_type, fromisoformat(data.timestamp))

PolicyPathway_to_dict(pathway) ==
    [id |-> pathway.id, evidence_card_ids |-> pathway.evidence_card_ids,
     linked_insight_id |-> pathway.linked_insight_id]

PolicyPathway_from_dict(data) ==
    PolicyPathway(data.evidence_card_ids, data.id, data.linked_insight_id)

Insight_to_dict(insight) ==
    [id |-> insight.id, content |-> insight.content,
     source_pathway_id |-> insight.source_pathway_id]

Insight_from_dict(data) ==
    Insight(data.content, data.source_pathway_id, data.id)

\* MemoryStore.to_dict: the three sections, each keyed by id
to_dict(s) ==
    [insights |-> [k \in 1..Len(s.insights) |->
                      [key |-> s.insights[k].id, value |-> Insight_to_dict(s.insights[k])]],
     pathways |-> [id \in DOMAIN s.pathways |-> PolicyPathway_to_dict(s.pathways[id])],
     evidence |-> [id \in DOMAIN s.evidence |-> AtomicEvidenceCard_to_dict(s.evidence[id])]]

\* the loops of from_dict over the evidence and the pathway sections; the keys of a
\* section are distinct, so the order of the loop does not show in what it builds
RECURSIVE LoadEvidence(_, _, _)
LoadEvidence(s, section, keys) ==
    IF keys = {} THEN s
    ELSE LET k == CHOOSE x \in keys : TRUE
         IN  LoadEvidence(add_evidence_card(s, AtomicEvidenceCard_from_dict(section[k])),
                          section, keys \ {k})

RECURSIVE LoadPathways(_, _, _)
LoadPathways(s, section, keys) ==
    IF keys = {} THEN s
    ELSE LET k == CHOOSE x \in keys : TRUE
         IN  LoadPathways(add_policy_pathway(s, PolicyPathway_from_dict(section[k])),
                          section, keys \ {k})

\* the loop of from_dict over the insight section, in the section's order
RECURSIVE LoadInsights(_, _)
LoadInsights(s, entries) ==
    IF entries = <<>> THEN s
    ELSE LoadInsights(add_insight(s, Insight_from_dict(Head(entries).value)), Tail(entries))

\* from_dict as it would be if it replayed the insights before the pathways
from_dict_insights_first(data) ==
    LET s1 == LoadEvidence(MemoryStore, data.evidence, DOMAIN data.evidence)
        s2 == LoadInsights(s1, data.insights)
    IN  LoadPathways(s2, data.pathways, DOMAIN data.pathways)

\* MemoryStore.from_dict
from_dict(data) ==
    LET s1 == LoadEvidence(MemoryStore, data.evidence, DOMAIN data.evidence)
        s2 == LoadPathways(s1, data.pathways, DOMAIN data.pathways)
    IN  LoadInsights(s2, data.insights)

\* ----------------------------------------------------------------- HDPM

\* the insight contents and the queries of the retrieval's callers
ContentSuperFold ==
    <<"S", "u", "p", "e", "r", "F", "o", "l", "d", ":", " ", "p", "r", "o", "t", "e",
    "i", "n", " ", "A", "l", "p", "h", "a", ".">>

ContentHelix ==
    <<"a", "l", "p", "h", "a", "-", "h", "e", "l", "i", "x", " ", "f", "o", "l", "d">>

QueryScenario ==
    <<"p", "r", "o", "t", "e", "i", "n", " ", "A", "l", "p", "h", "a", " ", "S", "u",
    "p", "e", "r", "F", "o", "l", "d">>

QueryHelix ==
    <<"H", "e", "l", "i", "x", "_", "1", " ", "f", "o", "l", "d", "-", "F", "O", "L",
    "D", ",", "\t", "a", "l", "p", "h", "a">>

QueryNoTerms ==
    <<"?", "!">>

Queries == {QueryScenario, QueryHelix, QueryNoTerms}

Contents == {ContentSuperFold, ContentHelix}

\* Terms of the texts above, computed once
TermsTable == [text \in Queries \cup Contents |-> Terms(text)]

TermsOf(text) == IF text \in DOMAIN TermsTable THEN TermsTable[text] ELSE Terms(text)

\* the score of an insight: len(query_terms.intersection(insight_terms))
Score(query, insight) == Cardinality(TermsOf(query) \cap TermsOf(insight.content))

\* the (score, insight) pairs with a positive score, in the insights' iteration order
ScoredInsights(query, s) ==
    LET Positive(i) == Score(query, i) > 0
        kept == SelectSeq(s.insights, Positive)
    IN  [k \in 1..Len(kept) |-> [score |-> Score(query, kept[k]), insight |-> kept[k]]]

\* the place of x in the list done, sorted by score descending: after every pair
\* whose score is not lower
RECURSIVE InsertByScore(_, _)
InsertByScore(done, x) ==
    IF done = <<>> THEN <<x>>
    ELSE IF x.score > done[Len(done)].score
         THEN Append(InsertByScore(SubSeq(done, 1, Len(done) - 1), x), done[Len(done)])
         ELSE Append(done, x)

\* the sort as it would be if it sorted ascending and then reversed the list: pairs
\* of equal score come out in the reverse of the iteration order
RECURSIVE SortedByScoreTiesReversed(_)
SortedByScoreTiesReversed(scored) ==
    IF scored = <<>> THEN <<>>
    ELSE LET x == scored[Len(scored)]
             rest == SortedByScoreTiesReversed(SubSeq(scored, 1, Len(scored) - 1))
             Higher(y) == y.score > x.score
             NotHigher(y) == y.score <= x.score
         IN  SelectSeq(rest, Higher) \o <<x>> \o SelectSeq(rest, NotHigher)

\* scored_insights.sort(key=lambda x: x[0], reverse=True): stable
RECURSIVE SortedByScore(_)
SortedByScore(scored) ==
    IF scored = <<>> THEN <<>>
    ELSE InsertByScore(SortedByScore(SubSeq(scored, 1, Len(scored) - 1)),
                       scored[Len(scored)])

\* [insight for score, insight in scored_insights[:top_k]], for top_k > 0
TopInsights(query, s, top_k) ==
    LET top == Take(SortedByScore(ScoredInsights(query, s)), top_k)
    IN  [k \in 1..Len(top) |-> top[k].insight]

\* the retrieval as it would be if it kept the insights whose pathway is missing
retrieve_keeping_orphans(query, s, top_k) ==
    IF top_k <= 0
    THEN [insights |-> <<>>, pathways |-> <<>>, warned |-> <<>>, examined |-> 0]
    ELSE LET top == TopInsights(query, s, top_k)
             Valid(i) == has_policy_pathway(s, i.source_pathway_id)
             valid == SelectSeq(top, Valid)
         IN  [insights |-> top,
              pathways |-> [k \in 1..Len(valid) |-> s.pathways[valid[k].source_pathway_id]],
              warned |-> <<>>,
              examined |-> Len(s.insights)]

\* the retrieval as it would be without the early return for top_k <= 0
retrieve_without_guard(query, s, top_k) ==
    LET top == TopInsights(query, s, top_k)
        Valid(i) == has_policy_pathway(s, i.source_pathway_id)
        Orphan(i) == ~has_policy_pathway(s, i.source_pathway_id)
        valid == SelectSeq(top, Valid)
    IN  [insights |-> valid,
         pathways |-> [k \in 1..Len(valid) |-> s.pathways[valid[k].source_pathway_id]],
         warned |-> SelectSeq(top, Orphan),
         examined |-> Len(s.insights)]

\* HDPM._retrieve_relevant_items_from_store: the two lists it returns, the insights
\* it prints a warning about, and how many insights its scoring loop went through
retrieve_relevant_items_from_store(query, s, top_k) ==
    IF top_k <= 0
    THEN [insights |-> <<>>, pathways |-> <<>>, warned |-> <<>>, examined |-> 0]
    ELSE LET top == TopInsights(query, s, top_k)
             Valid(i) == has_policy_pathway(s, i.source_pathway_id)
             Orphan(i) == ~has_policy_pathway(s, i.source_pathway_id)
             valid == SelectSeq(top, Valid)
         IN  [insights |-> valid,
              pathways |-> [k \in 1..Len(valid) |-> s.pathways[valid[k].source_pathway_id]],
              warned |-> SelectSeq(top, Orphan),
              examined |-> Len(s.insights)]

\* --------------------------------------------------------- ReflectAgent

\* ReflectAgent.__init__
ReflectAgent(llm_simulation_mode) == [llm_simulation_mode |-> llm_simulation_mode]

\* the string literals of memory_processing.py
SimpleKeywords ==
    <<"s", "i", "m", "p", "l", "e", "_", "k", "e", "y", "w", "o", "r", "d", "s">>

RandomChoice ==
    <<"r", "a", "n", "d", "o", "m", "_", "c", "h", "o", "i", "c", "e">>

\* the string literals of atomize
AtomizeText ==
    [ step |->
          <<"S", "t", "e", "p", " ">>,
      content_missing |->
          <<" ", "c", "o", "n", "t", "e", "n", "t", " ", "m", "i", "s", "s", "i", "n",
            "g">>,
      error_parsing |->
          <<"E", "r", "r", "o", "r", " ", "p", "a", "r", "s", "i", "n", "g", " ", "e",
            "v", "e", "n", "t", ":", " ">>,
      key_agent_type |->
          <<"a", "g", "e", "n", "t", "_", "t", "y", "p", "e">>,
      key_action_content |->
          <<"a", "c", "t", "i", "o", "n", "_", "c", "o", "n", "t", "e", "n", "t">>,
      key_timestamp |->
          <<"t", "i", "m", "e", "s", "t", "a", "m", "p">>,
      iso_date |->
          <<"2", "0", "2", "3", "-", "0", "1", "-", "1", "5", "T", "1", "0", ":", "0",
            "0", ":", "0">> ]

\* the string literals of the two distillation strategies and of distill
InsightText ==
    [ no_evidence_cards |->
          <<"N", "o", " ", "e", "v", "i", "d", "e", "n", "c", "e", " ", "c", "a", "r",
            "d", "s", " ", "f", "o", "u", "n", "d", " ", "f", "o", "r", " ", "t", "h",
            "i", "s", " ", "p", "a", "t", "h", "w", "a", "y", " ", "t", "o", " ", "d",
            "i", "s", "t", "i", "l", "l", " ", "i", "n", "s", "i", "g", "h", "t", ".">>,
      no_cards_in_pathway |->
          <<"N", "o", " ", "c", "a", "r", "d", "s", " ", "i", "n", " ", "p", "a", "t",
            "h", "w", "a", "y", " ", "t", "o", " ", "d", "i", "s", "t", "i", "l", "l",
            " ", "i", "n", "s", "i", "g", "h", "t", " ", "f", "r", "o", "m", ".">>,
      success_principle |->
          <<"S", "u", "c", "c", "e", "s", "s", " ", "P", "r", "i", "n", "c", "i", "p",
            "l", "e", ":", " ">>,
      failure_trap |->
          <<"F", "a", "i", "l", "u", "r", "e", " ", "T", "r", "a", "p", ":", " ">>,
      success_random_pick |->
          <<"S", "u", "c", "c", "e", "s", "s", " ", "P", "r", "i", "n", "c", "i", "p",
            "l", "e", " ", "(", "r", "a", "n", "d", "o", "m", " ", "p", "i", "c", "k",
            ")", ":", " ">>,
      failure_random_pick |->
          <<"F", "a", "i", "l", "u", "r", "e", " ", "T", "r", "a", "p", " ", "(", "r",
            "a", "n", "d", "o", "m", " ", "p", "i", "c", "k", ")", ":", " ">>,
      context |->
          <<"C", "o", "n", "t", "e", "x", "t", ":", " ">>,
      key_success_factors |->
          <<"K", "e", "y", " ", "s", "u", "c", "c", "e", "s", "s", " ", "f", "a", "c",
            "t", "o", "r", "s", ":", " ">>,
      key_failure_points |->
          <<"K", "e", "y", " ", "f", "a", "i", "l", "u", "r", "e", " ", "p", "o", "i",
            "n", "t", "s", ":", " ">>,
      tools_of_note |->
          <<"T", "o", "o", "l", "s", " ", "o", "f", " ", "n", "o", "t", "e", ":", " ">>,
      critical_feedback |->
          <<"C", "r", "i", "t", "i", "c", "a", "l", " ", "f", "e", "e", "d", "b", "a",
            "c", "k", ":", " ">>,
      sentence_end |->
          <<".", " ">>,
      no_cards_summary |->
          <<"G", "e", "n", "e", "r", "a", "l", " ", "p", "a", "t", "h", "w", "a", "y",
            " ", "r", "e", "c", "o", "r", "d", "e", "d", " ", "(", "n", "o", " ", "c",
            "a", "r", "d", "s", ")", ".">>,
      general_observation |->
          <<"G", "e", "n", "e", "r", "a", "l", " ", "o", "b", "s", "e", "r", "v", "a",
            "t", "i", "o", "n", " ", "f", "r", "o", "m", " ", "p", "a", "t", "h", ".",
            " ", "F", "i", "r", "s", "t", " ", "s", "t", "e", "p", ":", " ">>,
      ellipsis |->
          <<".", ".", ".">>,
      summary_based_on |->
          <<"S", "u", "m", "m", "a", "r", "y", " ", "b", "a", "s", "e", "d", " ", "o",
            "n", " ">>,
      steps |->
          <<" ", "s", "t", "e", "p", "s", ".">>,
      distillation_mode |->
          <<"D", "i", "s", "t", "i", "l", "l", "a", "t", "i", "o", "n", " ", "m", "o",
            "d", "e", " ", "'">>,
      not_recognized |->
          <<"'", " ", "n", "o", "t", " ", "r", "e", "c", "o", "g", "n", "i", "z", "e",
            "d", ".", " ", "D", "e", "f", "a", "u", "l", "t", " ", "i", "n", "s", "i",
            "g", "h", "t", " ", "g", "e", "n", "e", "r", "a", "t", "e", "d", ".">> ]

\* the words the keyword strategy looks for
Word ==
    [ success |->
          <<"s", "u", "c", "c", "e", "s", "s">>,
      good |->
          <<"g", "o", "o", "d">>,
      resolved |->
          <<"r", "e", "s", "o", "l", "v", "e", "d">>,
      fail |->
          <<"f", "a", "i", "l">>,
      error |->
          <<"e", "r", "r", "o", "r">>,
      issue |->
          <<"i", "s", "s", "u", "e">>,
      tool |->
          <<"t", "o", "o", "l">>,
      used |->
          <<"u", "s", "e", "d">>,
      warning |->
          <<"w", "a", "r", "n", "i", "n", "g">>,
      problem |->
          <<"p", "r", "o", "b", "l", "e", "m">>,
      bad |->
          <<"b", "a", "d">> ]

\* the lengths at which ReflectAgent cuts texts
EventDumpLimit == 100
FirstStepLimit == 50
KeywordInsightLimit == 300
RandomInsightLimit == 150
ShortAdditionSlack == 5

\* A trajectory event is a dict: a function whose domain is a subset of
\* {"agent_type", "action_content", "timestamp"}.

\* the text of a timestamp string
timestamp_text(x) ==
    IF x.kind = "text" THEN x.text
    ELSE AtomizeText.iso_date \o IntToStr(x.t)
             \o [k \in 1..(IF x.offset = "" THEN 0 ELSE 6) |-> <<"+", "0", "0", ":", "0", "0">>[k]]

\* repr of a str without quotes, backslashes or control characters
repr_str(text) == <<"'">> \o text \o <<"'">>

\* ', '.join(items)
RECURSIVE JoinComma(_)
JoinComma(items) ==
    IF items = <<>> THEN <<>>
    ELSE IF Len(items) = 1 THEN items[1]
    ELSE items[1] \o <<",", " ">> \o JoinComma(Tail(items))

\* str(event) for a dict whose keys were inserted in the order agent_type,
\* action_content, timestamp
repr_event(event) ==
    LET Item(key, value) == repr_str(key) \o <<":", " ">> \o repr_str(value)
        items ==
            (IF "agent_type" \in DOMAIN event
             THEN <<Item(AtomizeText.key_agent_type, event.agent_type)>> ELSE <<>>)
            \o (IF "action_content" \in DOMAIN event
                THEN <<Item(AtomizeText.key_action_content, event.action_content)>> ELSE <<>>)
            \o (IF "timestamp" \in DOMAIN event
                THEN <<Item(AtomizeText.key_timestamp, timestamp_text(event.timestamp))>> ELSE <<>>)
    IN  <<"{">> \o JoinComma(items) \o <<"}">>

\* whether event.get('timestamp') is a non-empty string
has_timestamp(event) ==
    /\ "timestamp" \in DOMAIN event
    /\ ~(event.timestamp.kind = "text" /\ event.timestamp.text = <<>>)

\* the body of the loop of atomize for the event at index i (from 0) of a
\* trajectory of n events: the card appended, now being what datetime.now() returns
AtomizedCard(event, i, n, now, id) ==
    LET content == IF "action_content" \in DOMAIN event THEN event.action_content
                   ELSE AtomizeText.step \o IntToStr(i + 1) \o AtomizeText.content_missing
        agent_type == IF "agent_type" \in DOMAIN event THEN event.agent_type
                      ELSE UnknownAgent
        synthetic == Naive(now - (n - i))
    IN  IF has_timestamp(event) /\ fromisoformat_raises(event.timestamp)
        THEN AtomicEvidenceCard(id, AtomizeText.error_parsing \o Take(repr_event(event), EventDumpLimit),
                                SystemError, synthetic)
        ELSE AtomicEvidenceCard(id, content, agent_type,
                                IF has_timestamp(event) THEN fromisoformat(event.timestamp)
                                ELSE synthetic)

\* f"aec_{uuid.uuid4()}", f"pp_{uuid.uuid4()}", f"insight_{uuid.uuid4()}": the n-th
\* uuid drawn is written n
CardId(n) == "aec_" \o ToString(n)
PathwayId(n) == "pp_" \o ToString(n)
NewInsightId(n) == "insight_" \o ToString(n)

\* what datetime.now() returns at the event of index i when the clock's second
\* changes after `crossing` events of the loop
NowAt(now, crossing, i) == IF i >= crossing THEN now + 1 ELSE now

\* the list atomize has built when its loop ends; the cards take the uuids after drawn
atomize_loop(trajectory, now, crossing, drawn) ==
    [k \in 1..Len(trajectory) |->
        AtomizedCard(trajectory[k], k - 1, Len(trajectory), NowAt(now, crossing, k - 1),
                     CardId(drawn + k))]

\* evidence_cards.sort(key=lambda x: x.timestamp) raising TypeError
atomize_raises(trajectory, now, crossing, drawn) ==
    ~Comparable(atomize_loop(trajectory, now, crossing, drawn))

\* ReflectAgent.atomize
atomize(trajectory, now, crossing, drawn) ==
    SortedByTimestamp(atomize_loop(trajectory, now, crossing, drawn))

\* serialize as it would be without the sort
serialize_unsorted(evidence_cards, pathway_id) ==
    PolicyPathway([k \in 1..Len(evidence_cards) |-> evidence_cards[k].id], pathway_id, None)

\* ReflectAgent.serialize
serialize(evidence_cards, pathway_id) ==
    IF evidence_cards = <<>> THEN PolicyPathway(<<>>, pathway_id, None)
    ELSE LET sorted_cards == SortedByTimestamp(evidence_cards)
         IN  PolicyPathway([k \in 1..Len(sorted_cards) |-> sorted_cards[k].id],
                           pathway_id, None)

ContainsAny(text, patterns) == \E pattern \in patterns : Contains(text, pattern)

\* the four lists of keywords the loop of the keyword strategy collects
Keywords(pathway_cards) ==
    LET IsSuccess(card) ==
            ContainsAny(lower(card.content), {Word.success, Word.good, Word.resolved})
        IsFailure(card) ==
            ContainsAny(lower(card.content), {Word.fail, Word.error, Word.issue})
        NamesTool(card) ==
            /\ card.agent_type = Assistant
            /\ Len(split_on_space(card.content)) > 1
            /\ ContainsAny(lower(split_on_space(card.content)[1]), {Word.tool, Word.used})
        IsCritical(card) ==
            /\ card.agent_type = Critic
            /\ ContainsAny(lower(card.content), {Word.warning, Word.problem, Word.bad})
        Content(cards) == [k \in 1..Len(cards) |-> cards[k].content]
        Tool(cards) == [k \in 1..Len(cards) |-> split_on_space(cards[k].content)[2]]
    IN  [success |-> Content(SelectSeq(pathway_cards, IsSuccess)),
         failure |-> Content(SelectSeq(pathway_cards, IsFailure)),
         tool_used |-> Tool(SelectSeq(pathway_cards, NamesTool)),
         critical_feedback |-> Content(SelectSeq(pathway_cards, IsCritical))]

\* the text the keyword strategy returns when list(set(keywords['tool_used']))[:1]
\* is tools (empty, or one of the tool names: a set of str iterates in no fixed order)
KeywordInsight(pathway_cards, result, tools) ==
    LET keywords == Keywords(pathway_cards)
        outcome_prefix == IF result = 1 THEN InsightText.success_principle ELSE InsightText.failure_trap
        IsPlanner(card) == card.agent_type = Planner
        planners == SelectSeq(pathway_cards, IsPlanner)
        planner_card_content ==
            IF planners = <<>> THEN <<>>
            ELSE InsightText.context \o planners[1].content \o InsightText.sentence_end
        outcome_part ==
            IF result = 1 /\ keywords.success # <<>>
            THEN InsightText.key_success_factors \o keywords.success[1] \o InsightText.sentence_end
            ELSE IF result = -1 /\ keywords.failure # <<>>
            THEN InsightText.key_failure_points \o keywords.failure[1] \o InsightText.sentence_end
            ELSE <<>>
        tool_part ==
            IF keywords.tool_used # <<>>
            THEN InsightText.tools_of_note \o JoinComma(tools) \o InsightText.sentence_end
            ELSE <<>>
        feedback_part ==
            IF result = -1 /\ keywords.critical_feedback # <<>>
            THEN InsightText.critical_feedback \o keywords.critical_feedback[1] \o InsightText.sentence_end
            ELSE <<>>
        distilled_text ==
            outcome_prefix \o planner_card_content \o outcome_part \o tool_part
                \o feedback_part
        initial_meaningful_length == Len(outcome_prefix) + Len(planner_card_content)
        fallback ==
            IF Len(distilled_text) > initial_meaningful_length + ShortAdditionSlack
            THEN <<>>
            ELSE IF pathway_cards = <<>> THEN InsightText.no_cards_summary
            ELSE IF /\ keywords.success = <<>>
                    /\ keywords.failure = <<>>
                    /\ keywords.tool_used = <<>>
                    /\ keywords.critical_feedback = <<>>
            THEN InsightText.general_observation \o Take(pathway_cards[1].content, FirstStepLimit)
                     \o InsightText.ellipsis
            ELSE InsightText.summary_based_on \o IntToStr(Len(pathway_cards)) \o InsightText.steps
    IN  Take(distilled_text \o fallback, KeywordInsightLimit)

\* the keyword strategy as it would be if it took success for failure
distill_insight_content_keywords_swapped(pathway, s, result) ==
    LET pathway_cards == get_evidence_cards_for_pathway(s, pathway.id)
        tool_used == Keywords(pathway_cards).tool_used
    IN  IF pathway_cards = <<>> THEN {InsightText.no_evidence_cards}
        ELSE IF tool_used = <<>> THEN {KeywordInsight(pathway_cards, -result, <<>>)}
        ELSE {KeywordInsight(pathway_cards, -result, <<tool>>) : tool \in Range(tool_used)}

\* ReflectAgent._distill_insight_content_simple_keywords: the texts it can return
distill_insight_content_simple_keywords(pathway, s, result) ==
    LET pathway_cards == get_evidence_cards_for_pathway(s, pathway.id)
        tool_used == Keywords(pathway_cards).tool_used
    IN  IF pathway_cards = <<>> THEN {InsightText.no_evidence_cards}
        ELSE IF tool_used = <<>> THEN {KeywordInsight(pathway_cards, result, <<>>)}
        ELSE {KeywordInsight(pathway_cards, result, <<tool>>) : tool \in Range(tool_used)}

\* ReflectAgent._distill_insight_content_random_choice: the texts it can return, one
\* for each card random.choice can pick
distill_insight_content_random_choice(pathway, s, result) ==
    LET pathway_cards == get_evidence_cards_for_pathway(s, pathway.id)
        outcome_prefix == IF result = 1 THEN InsightText.success_random_pick ELSE InsightText.failure_random_pick
    IN  IF pathway_cards = <<>> THEN {InsightText.no_cards_in_pathway}
        ELSE {outcome_prefix \o Take(pathway_cards[k].content, RandomInsightLimit) :
                 k \in 1..Len(pathway_cards)}

\* distill as it would be if a name it does not know selected the keyword strategy
distill_defaulting(llm_simulation_mode, policy_pathway, s, result) ==
    IF llm_simulation_mode = RandomChoice
    THEN distill_insight_content_random_choice(policy_pathway, s, result)
    ELSE distill_insight_content_simple_keywords(policy_pathway, s, result)

\* ReflectAgent.distill: the contents of the insight it can return
distill(llm_simulation_mode, policy_pathway, s, result) ==
    IF llm_simulation_mode = SimpleKeywords
    THEN distill_insight_content_simple_keywords(policy_pathway, s, result)
    ELSE IF llm_simulation_mode = RandomChoice
    THEN distill_insight_content_random_choice(policy_pathway, s, result)
    ELSE {InsightText.distillation_mode \o llm_simulation_mode \o InsightText.not_recognized}

\* hdpm_instance.positive_memory if result == 1 else hdpm_instance.negative_memory
target_memory_store(result) == IF result = 1 THEN "positive_memory" ELSE "negative_memory"

\* for card in evidence_cards: target_memory_store.add_evidence_card(card)
RECURSIVE add_evidence_cards(_, _)
add_evidence_cards(s, evidence_cards) ==
    IF evidence_cards = <<>> THEN s
    ELSE add_evidence_cards(add_evidence_card(s, Head(evidence_cards)), Tail(evidence_cards))

\* the store update_memory distills from: the cards and the pathway added
with_cards_and_pathway(s, evidence_cards, policy_pathway) ==
    add_policy_pathway(add_evidence_cards(s, evidence_cards), policy_pathway)

\* ----------------------------------------------------- HDPM: the briefings

\* the string literals of the scaffolds
ScaffoldText ==
    [ planner_header |->
          <<"#", "#", "#", " ", "P", "l", "a", "n", "n", "e", "r", " ", "S", "t", "r",
            "a", "t", "e", "g", "i", "c", " ", "B", "r", "i", "e", "f", "i", "n", "g",
            " ", "#", "#", "#", "\n">>,
      success_principles |->
          <<"#", " ", "S", "u", "c", "c", "e", "s", "s", " ", "P", "r", "i", "n", "c",
            "i", "p", "l", "e", "s", " ", "(", "f", "r", "o", "m", " ", "p", "a", "s",
            "t", " ", "e", "x", "p", "e", "r", "i", "e", "n", "c", "e", "s", ")", ":",
            "\n">>,
      no_success_principles |->
          <<"#", " ", "N", "o", " ", "s", "p", "e", "c", "i", "f", "i", "c", " ", "s",
            "u", "c", "c", "e", "s", "s", " ", "p", "r", "i", "n", "c", "i", "p", "l",
            "e", "s", " ", "r", "e", "t", "r", "i", "e", "v", "e", "d", " ", "f", "o",
            "r", " ", "t", "h", "i", "s", " ", "q", "u", "e", "r", "y", ".", "\n">>,
      failure_traps |->
          <<"\n", "#", " ", "F", "a", "i", "l", "u", "r", "e", " ", "T", "r", "a", "p",
            "s", " ", "t", "o", " ", "A", "v", "o", "i", "d", " ", "(", "f", "r", "o",
            "m", " ", "p", "a", "s", "t", " ", "e", "x", "p", "e", "r", "i", "e", "n",
            "c", "e", "s", ")", ":", "\n">>,
      no_failure_traps |->
          <<"#", " ", "N", "o", " ", "s", "p", "e", "c", "i", "f", "i", "c", " ", "f",
            "a", "i", "l", "u", "r", "e", " ", "t", "r", "a", "p", "s", " ", "r", "e",
            "t", "r", "i", "e", "v", "e", "d", " ", "f", "o", "r", " ", "t", "h", "i",
            "s", " ", "q", "u", "e", "r", "y", ".", "\n">>,
      bullet |->
          <<"-", " ">>,
      source_pathway |->
          <<" ", "(", "S", "o", "u", "r", "c", "e", " ", "P", "a", "t", "h", "w", "a",
            "y", ":", " ">>,
      close_line |->
          <<")", "\n">>,
      planner_closing |->
          <<"\n", "#", " ", "B", "a", "s", "e", "d", " ", "o", "n", " ", "t", "h", "e",
            " ", "a", "b", "o", "v", "e", ",", " ", "a", "n", "d", " ", "y", "o", "u",
            "r", " ", "g", "e", "n", "e", "r", "a", "l", " ", "k", "n", "o", "w", "l",
            "e", "d", "g", "e", ",", " ", "f", "o", "r", "m", "u", "l", "a", "t", "e",
            " ", "a", " ", "h", "i", "g", "h", "-", "l", "e", "v", "e", "l", " ", "s",
            "t", "r", "a", "t", "e", "g", "i", "c", " ", "p", "l", "a", "n", " ", "f",
            "o", "r", " ", "t", "h", "e", " ", "q", "u", "e", "r", "y", ":", " ", "\"">>,
      quote_line |->
          <<"\"", "\n">>,
      tool_action |->
          <<" ", " ", "-", " ", "T", "o", "o", "l", "/", "A", "c", "t", "i", "o", "n",
            ":", " ">>,
      timestamp |->
          <<" ", "(", "T", "i", "m", "e", "s", "t", "a", "m", "p", ":", " ">>,
      above_from_pathway |->
          <<" ", " ", " ", " ", "(", "A", "b", "o", "v", "e", " ", "f", "r", "o", "m",
            " ", "P", "a", "t", "h", "w", "a", "y", ":", " ">>,
      no_examples |->
          <<" ", " ", "-", " ", "N", "o", " ", "s", "p", "e", "c", "i", "f", "i", "c",
            " ", "e", "x", "a", "m", "p", "l", "e", "s", " ", "o", "f", " ", "t", "h",
            "i", "s", " ", "t", "y", "p", "e", " ", "r", "e", "t", "r", "i", "e", "v",
            "e", "d", ".", "\n">>,
      assistant_header |->
          <<"#", "#", "#", " ", "A", "s", "s", "i", "s", "t", "a", "n", "t", " ", "E",
            "x", "e", "c", "u", "t", "i", "o", "n", " ", "H", "a", "n", "d", "b", "o",
            "o", "k", " ", "#", "#", "#", "\n">>,
      successful_tool_usage |->
          <<"#", " ", "S", "u", "c", "c", "e", "s", "s", "f", "u", "l", " ", "T", "o",
            "o", "l", " ", "U", "s", "a", "g", "e", " ", "E", "x", "a", "m", "p", "l",
            "e", "s", " ", "(", "f", "r", "o", "m", " ", "p", "o", "s", "i", "t", "i",
            "v", "e", " ", "p", "a", "t", "h", "w", "a", "y", "s", ")", ":", "\n">>,
      caution |->
          <<"\n", "#", " ", "C", "a", "u", "t", "i", "o", "n", " ", "-", " ", "P", "a",
            "s", "t", " ", "I", "s", "s", "u", "e", "s", " ", "&", " ", "F", "a", "i",
            "l", "e", "d", " ", "T", "o", "o", "l", " ", "U", "s", "a", "g", "e", " ",
            "(", "f", "r", "o", "m", " ", "n", "e", "g", "a", "t", "i", "v", "e", " ",
            "p", "a", "t", "h", "w", "a", "y", "s", ")", ":", "\n">>,
      assistant_closing |->
          <<"\n", "#", " ", "W", "h", "e", "n", " ", "e", "x", "e", "c", "u", "t", "i",
            "n", "g", " ", "t", "h", "e", " ", "n", "e", "w", " ", "p", "l", "a", "n",
            ",", " ", "a", "i", "m", " ", "t", "o", " ", "r", "e", "p", "l", "i", "c",
            "a", "t", "e", " ", "s", "u", "c", "c", "e", "s", "s", "f", "u", "l", " ",
            "p", "a", "t", "t", "e", "r", "n", "s", " ", "a", "n", "d", " ", "s", "t",
            "r", "i", "c", "t", "l", "y", " ", "a", "v", "o", "i", "d", " ", "k", "n",
            "o", "w", "n", " ", "f", "a", "i", "l", "u", "r", "e", " ", "m", "o", "d",
            "e", "s", " ", "r", "e", "l", "a", "t", "e", "d", " ", "t", "o", " ", "t",
            "o", "o", "l", " ", "u", "s", "a", "g", "e", " ", "o", "r", " ", "p", "a",
            "r", "a", "m", "e", "t", "e", "r", "s", ".", "\n">>,
      critic_header |->
          <<"#", "#", "#", " ", "C", "r", "i", "t", "i", "c", " ", "E", "v", "a", "l",
            "u", "a", "t", "i", "o", "n", " ", "E", "s", "s", "e", "n", "t", "i", "a",
            "l", "s", " ", "#", "#", "#", "\n">>,
      key_indicators |->
          <<"#", " ", "K", "e", "y", " ", "I", "n", "d", "i", "c", "a", "t", "o", "r",
            "s", " ", "f", "r", "o", "m", " ", "S", "u", "c", "c", "e", "s", "s", "f",
            "u", "l", " ", "E", "v", "a", "l", "u", "a", "t", "i", "o", "n", "s", " ",
            "(", "f", "r", "o", "m", " ", "p", "o", "s", "i", "t", "i", "v", "e", " ",
            "p", "a", "t", "h", "w", "a", "y", "s", ")", ":", "\n">>,
      common_pitfalls |->
          <<"\n", "#", " ", "C", "o", "m", "m", "o", "n", " ", "P", "i", "t", "f", "a",
            "l", "l", "s", " ", "&", " ", "D", "e", "f", "e", "c", "t", " ", "S", "i",
            "g", "n", "a", "t", "u", "r", "e", "s", " ", "f", "r", "o", "m", " ", "F",
            "a", "i", "l", "e", "d", " ", "C", "a", "s", "e", "s", " ", "(", "f", "r",
            "o", "m", " ", "n", "e", "g", "a", "t", "i", "v", "e", " ", "p", "a", "t",
            "h", "w", "a", "y", "s", ")", ":", "\n">>,
      critic_closing |->
          <<"\n", "#", " ", "D", "u", "r", "i", "n", "g", " ", "y", "o", "u", "r", " ",
            "e", "v", "a", "l", "u", "a", "t", "i", "o", "n", ",", " ", "p", "a", "y",
            " ", "c", "l", "o", "s", "e", " ", "a", "t", "t", "e", "n", "t", "i", "o",
            "n", " ", "t", "o", " ", "r", "e", "p", "l", "i", "c", "a", "t", "i", "n",
            "g", " ", "c", "o", "n", "d", "i", "t", "i", "o", "n", "s", " ", "t", "h",
            "a", "t", " ", "l", "e", "d", " ", "t", "o", " ", "s", "u", "c", "c", "e",
            "s", "s", " ", "a", "n", "d", " ", "b", "e", " ", "v", "i", "g", "i", "l",
            "a", "n", "t", " ", "f", "o", "r", " ", "a", "n", "y", " ", "s", "i", "g",
            "n", "s", " ", "o", "f", " ", "p", "r", "e", "v", "i", "o", "u", "s", "l",
            "y", " ", "o", "b", "s", "e", "r", "v", "e", "d", " ", "f", "a", "i", "l",
            "u", "r", "e", " ", "c", "h", "a", "r", "a", "c", "t", "e", "r", "i", "s",
            "t", "i", "c", "s", ".", "\n">> ]

DateText ==
    <<"2", "0", "2", "3", "-", "0", "1", "-", "1", "5", " ">>

PpText ==
    <<"p", "p", "_">>

\* Limit number of example cards
max_cards_per_role == 3

\* the text of a pathway id: the ids the callers of the store choose, and the ids
\* PolicyPathway.__init__ makes of a uuid
PoolIdTexts ==
    [id \in {"p1", "p2", "p3", "p9"} |->
        <<"p", IF id = "p1" THEN "1" ELSE IF id = "p2" THEN "2" ELSE IF id = "p3" THEN "3"
               ELSE "9">>]

id_text(id) ==
    IF id \in DOMAIN PoolIdTexts THEN PoolIdTexts[id]
    ELSE PpText \o IntToStr(CHOOSE n \in 0..MaxUuid : id = PathwayId(n))

\* f"{n:02d}"
TwoDigits(n) == IF n < 10 THEN <<"0">> \o IntToStr(n) ELSE IntToStr(n)

\* timestamp.strftime('%Y-%m-%d %H:%M'); the timestamps count the seconds from
\* 2023-01-15 10:00:00 and stay within that day
strftime(timestamp) ==
    LET minutes == 600 + (timestamp.t \div 60)
    IN  DateText \o TwoDigits(minutes \div 60) \o <<":">> \o TwoDigits(minutes % 60)

\* HDPM.global_co_retrieval
global_co_retrieval(self, query, top_k) ==
    LET pos == retrieve_relevant_items_from_store(query, self.positive_memory, top_k)
        neg == retrieve_relevant_items_from_store(query, self.negative_memory, top_k)
    IN  [positive_insights |-> pos.insights, positive_pathways |-> pos.pathways,
         negative_insights |-> neg.insights, negative_pathways |-> neg.pathways]

\* the lines of build_planner_scaffold for a list of insights
RECURSIVE InsightBullets(_)
InsightBullets(insights) ==
    IF insights = <<>> THEN <<>>
    ELSE ScaffoldText.bullet \o Head(insights).content \o ScaffoldText.source_pathway
             \o id_text(Head(insights).source_pathway_id) \o ScaffoldText.close_line
             \o InsightBullets(Tail(insights))

\* HDPM.build_planner_scaffold
build_planner_scaffold(positive_insights, negative_insights, query) ==
    ScaffoldText.planner_header
        \o (IF positive_insights # <<>>
            THEN ScaffoldText.success_principles \o InsightBullets(positive_insights)
            ELSE ScaffoldText.no_success_principles)
        \o (IF negative_insights # <<>>
            THEN ScaffoldText.failure_traps \o InsightBullets(negative_insights)
            ELSE ScaffoldText.no_failure_traps)
        \o ScaffoldText.planner_closing \o query \o ScaffoldText.quote_line

\* the inner loop as it would be without the test of the role
RECURSIVE FormatCardsOfAnyRole(_, _, _)
FormatCardsOfAnyRole(evidence_cards, agent_role, done) ==
    IF evidence_cards = <<>> \/ done.card_count >= max_cards_per_role THEN done
    ELSE LET card == Head(evidence_cards)
         IN  FormatCardsOfAnyRole(Tail(evidence_cards), agent_role,
                 [text |-> done.text \o ScaffoldText.tool_action \o card.content
                              \o ScaffoldText.timestamp \o strftime(card.timestamp)
                              \o ScaffoldText.close_line,
                  card_count |-> done.card_count + 1,
                  listed |-> Append(done.listed, card)])

\* the inner loop of _format_evidence_for_scaffold: the text and the count of cards
\* after the cards of one pathway
RECURSIVE FormatCards(_, _, _)
FormatCards(evidence_cards, agent_role, done) ==
    IF evidence_cards = <<>> \/ done.card_count >= max_cards_per_role THEN done
    ELSE LET card == Head(evidence_cards)
         IN  FormatCards(Tail(evidence_cards), agent_role,
                 IF card.agent_type = agent_role
                 THEN [text |-> done.text \o ScaffoldText.tool_action \o card.content
                                    \o ScaffoldText.timestamp \o strftime(card.timestamp)
                                    \o ScaffoldText.close_line,
                       card_count |-> done.card_count + 1,
                       listed |-> Append(done.listed, card)]
                 ELSE done)

\* the outer loop of _format_evidence_for_scaffold
RECURSIVE FormatPathways(_, _, _, _)
FormatPathways(pathways, memory_store, agent_role, done) ==
    IF pathways = <<>> \/ done.card_count >= max_cards_per_role THEN done
    ELSE LET evidence_cards == get_evidence_cards_for_pathway(memory_store, Head(pathways).id)
             after == FormatCards(evidence_cards, agent_role, done)
         IN  FormatPathways(Tail(pathways), memory_store, agent_role,
                 IF evidence_cards # <<>> /\ after.card_count < max_cards_per_role
                 THEN [after EXCEPT !.text = @ \o ScaffoldText.above_from_pathway
                                                 \o id_text(Head(pathways).id)
                                                 \o ScaffoldText.close_line]
                 ELSE after)

\* what the loops of _format_evidence_for_scaffold leave: the text, the count of the
\* cards listed and the cards listed
FormattedEvidence(pathways, memory_store, agent_role) ==
    FormatPathways(pathways, memory_store, agent_role,
                   [text |-> <<>>, card_count |-> 0, listed |-> <<>>])

\* HDPM._format_evidence_for_scaffold
format_evidence_for_scaffold(pathways, memory_store, agent_role) ==
    LET text == FormattedEvidence(pathways, memory_store, agent_role).text
    IN  IF text = <<>> THEN ScaffoldText.no_examples ELSE text

\* HDPM.build_assistant_scaffold
build_assistant_scaffold(self, positive_pathways, negative_pathways) ==
    ScaffoldText.assistant_header
        \o ScaffoldText.successful_tool_usage
        \o format_evidence_for_scaffold(positive_pathways, self.positive_memory, Assistant)
        \o ScaffoldText.caution
        \o format_evidence_for_scaffold(negative_pathways, self.negative_memory, Assistant)
        \o ScaffoldText.assistant_closing

\* HDPM.build_critic_scaffold
build_critic_scaffold(self, positive_pathways, negative_pathways) ==
    ScaffoldText.critic_header
        \o ScaffoldText.key_indicators
        \o format_evidence_for_scaffold(positive_pathways, self.positive_memory, Critic)
        \o ScaffoldText.common_pitfalls
        \o format_evidence_for_scaffold(negative_pathways, self.negative_memory, Critic)
        \o ScaffoldText.critic_closing

\* the dictionary generate_role_specific_prompts builds of what the retrieval found
Prompts(self, found, query) ==
    [Planner |-> build_planner_scaffold(found.positive_insights,
                                        found.negative_insights, query),
     Assistant |-> build_assistant_scaffold(self, found.positive_pathways,
                                            found.negative_pathways),
     Critic |-> build_critic_scaffold(self, found.positive_pathways,
                                      found.negative_pathways)]

\* HDPM.generate_role_specific_prompts
generate_role_specific_prompts(self, query, top_k_retrieval) ==
    Prompts(self,
            global_co_retrieval(self, query,
                                IF top_k_retrieval <= 0 THEN 1 ELSE top_k_retrieval),
            query)

\* ------------------------------------------------ the MemoryStore's callers

\* the cards, pathways and insights a caller hands to the stand-alone store
StoreCards ==
    {AtomicEvidenceCard(id, <<"c">>, IF id = "e1" THEN Assistant ELSE Critic, Naive(t)) :
        id \in {"e1", "e2"}, t \in 1..MaxTime}

StorePathways ==
    {PolicyPathway(ids, pid, link) :
        ids \in {<<"e2", "e3", "e1">>, <<"e1", "e2", "e1">>}, pid \in {"p1", "p2"},
        link \in {None, "i1"}}

StoreInsights ==
    {Insight(<<"x">>, src, id) : src \in {"p1", "p2"}, id \in {"i1", "i2"}}

PathwayIdsAsked == {"p1", "p2", "p3"}

Init ==
    /\ store = MemoryStore
    /\ hdpm = [positive_memory |-> MemoryStore, negative_memory |-> MemoryStore]
    /\ reflect_agent = ReflectAgent(SimpleKeywords)
    /\ clock = 0
    /\ uuid = 0
    /\ call = [op |-> "init"]

AddEvidenceCard ==
    \E card \in StoreCards :
        /\ store' = add_evidence_card(store, card)
        /\ call' = [op |-> "add_evidence_card", card |-> card]
        /\ UNCHANGED <<hdpm, reflect_agent, clock, uuid>>

AddPolicyPathway ==
    \E pathway \in StorePathways :
        /\ store' = add_policy_pathway(store, pathway)
        /\ call' = [op |-> "add_policy_pathway", pathway |-> pathway]
        /\ UNCHANGED <<hdpm, reflect_agent, clock, uuid>>

AddInsight ==
    \E insight \in StoreInsights :
        /\ store' = add_insight(store, insight)
        /\ call' = [op |-> "add_insight", insight |-> insight,
                    warned |-> ~add_insight_links(store, insight)]
        /\ UNCHANGED <<hdpm, reflect_agent, clock, uuid>>

GetEvidenceCardsForPathway ==
    \E pathway_id \in PathwayIdsAsked :
        /\ call' = [op |-> "get_evidence_cards_for_pathway", pathway_id |-> pathway_id,
                    raised |-> get_evidence_cards_raises(store, pathway_id),
                    cards |-> get_evidence_cards_for_pathway(store, pathway_id),
                    warned |-> MissingCardIds(store, pathway_id)]
        /\ UNCHANGED <<store, hdpm, reflect_agent, clock, uuid>>

\* MemoryStore.from_dict(store.to_dict())
RoundTrip ==
    /\ call' = [op |-> "round_trip", reloaded |-> from_dict(to_dict(store))]
    /\ UNCHANGED <<store, hdpm, reflect_agent, clock, uuid>>

Next ==
    \/ AddEvidenceCard
    \/ AddPolicyPathway
    \/ AddInsight
    \/ GetEvidenceCardsForPathway
    \/ RoundTrip

Spec == Init /\ [][Next]_vars

\* the pathways and insights the callers of the retrieval hand to the store
RetrievalPathways == {PolicyPathway(<<>>, "p1", None)}

RetrievalInsights ==
    {Insight(content, src, id) :
        content \in Contents, src \in {"p1", "p2"},
        id \in {"i1", "i2", "i3"}}

AddRetrievalPathway ==
    \E pathway \in RetrievalPathways :
        /\ store' = add_policy_pathway(store, pathway)
        /\ call' = [op |-> "add_policy_pathway", pathway |-> pathway]
        /\ UNCHANGED <<hdpm, reflect_agent, clock, uuid>>

AddRetrievalInsight ==
    \E insight \in RetrievalInsights :
        /\ store' = add_insight(store, insight)
        /\ call' = [op |-> "add_insight", insight |-> insight,
                    warned |-> ~add_insight_links(store, insight)]
        /\ UNCHANGED <<hdpm, reflect_agent, clock, uuid>>

Retrieve ==
    \E query \in Queries, top_k \in -1..MaxTopK :
        /\ call' = [op |-> "retrieve", query |-> query, top_k |-> top_k,
                    result |-> retrieve_relevant_items_from_store(query, store, top_k)]
        /\ UNCHANGED <<store, hdpm, reflect_agent, clock, uuid>>

NextRetrieve ==
    \/ AddRetrievalPathway
    \/ AddRetrievalInsight
    \/ Retrieve

SpecRetrieve == Init /\ [][NextRetrieve]_vars

\* the words the queries of the scoring are made of: a word in two cases and with
\* punctuation, the two parts of a word, a word with punctuation inside
ScoreWords ==
    << <<"A", "l", "p", "h", "a">>,
       <<"A", "L", "P", "H", "A", ".">>,
       <<"f", "o", "l", "d">>,
       <<"S", "u", "p", "e", "r", "F", "o", "l", "d", ":">>,
       <<"S", "u", "p", "e", "r">>,
       <<"h", "e", "!", "l", "i", "x">> >>

ScoreInsights == {Insight(ContentSuperFold, "p1", "i1"), Insight(ContentHelix, "p1", "i2")}

AddScoreInsight ==
    \E insight \in ScoreInsights :
        /\ store' = add_insight(store, insight)
        /\ call' = [op |-> "add_insight", insight |-> insight,
                    warned |-> ~add_insight_links(store, insight)]
        /\ UNCHANGED <<hdpm, reflect_agent, clock, uuid>>

\* hdpm._retrieve_relevant_items_from_store(query, store, top_k) for a query of one
\* word, or of two words and a space or a hyphen between them, with the terms of the
\* query and the score of every insight of the store
RetrieveByWords ==
    \E n \in 1..2 : \E words \in [1..n -> DOMAIN ScoreWords], separator \in {<<" ">>, <<"-">>} :
        LET query == IF n = 1 THEN ScoreWords[words[1]]
                     ELSE ScoreWords[words[1]] \o separator \o ScoreWords[words[2]]
        IN  /\ call' = [op |-> "retrieve", words |-> words, query |-> query,
                        top_k |-> MaxTopK,
                        query_terms |-> Terms(query),
                        scores |-> [k \in 1..Len(store.insights) |->
                                       Score(query, store.insights[k])],
                        result |-> retrieve_relevant_items_from_store(query, store, MaxTopK)]
            /\ UNCHANGED <<store, hdpm, reflect_agent, clock, uuid>>

NextScore ==
    \/ AddRetrievalPathway
    \/ AddScoreInsight
    \/ RetrieveByWords

SpecScore == Init /\ [][NextScore]_vars

\* ------------------------------------------------- the ReflectAgent's callers

\* the contents of the steps
StepContent ==
    [ plan |->
          <<"P", "l", "a", "n", ":", " ", "f", "o", "l", "d", " ", "i", "t">>,
      used_tool_x |->
          <<"U", "s", "e", "d", " ", "T", "o", "o", "l", "X", " ", "g", "o", "o", "d">>,
      tool_y |->
          <<"t", "o", "o", "l", " ", "T", "o", "o", "l", "Y", " ", "e", "r", "r", "o",
            "r">>,
      bad_result |->
          <<"b", "a", "d", " ", "r", "e", "s", "u", "l", "t">>,
      faulty_step |->
          <<"f", "a", "u", "l", "t", "y", " ", "s", "t", "e", "p">> ]

SoonText == <<"s", "o", "o", "n">>

OtherModeText == <<"l", "l", "m">>

\* timestamp strings: ISO-8601 without and with a UTC offset, and other text
IsoNaive(t) == [kind |-> "iso", t |-> t, offset |-> ""]
IsoAware(t) == [kind |-> "iso", t |-> t, offset |-> "+00:00"]
NotIso(text) == [kind |-> "text", text |-> text]

Event(agent_type, action_content, timestamp) ==
    [agent_type |-> agent_type, action_content |-> action_content, timestamp |-> timestamp]

\* the trajectories given: none; three steps whose timestamps are not in the order
\* of the steps; steps with missing fields and no timestamps; two tools, one step
\* without a timestamp after a step with a naive one; a timestamp that is not
\* ISO-8601 and an empty one; timestamps with a UTC offset; a timestamp with a UTC
\* offset and a step without a timestamp; a step without action_content that carries
\* a UTC offset and a step without agent_type and without a timestamp
Trajectories ==
    {<<>>,
     <<Event(Assistant, StepContent.used_tool_x, IsoNaive(2)),
       Event(Planner, StepContent.plan, IsoNaive(1)),
       Event(Critic, StepContent.bad_result, IsoNaive(2))>>,
     <<[action_content |-> StepContent.faulty_step], [agent_type |-> Assistant]>>,
     <<Event(Assistant, StepContent.used_tool_x, IsoNaive(1)),
       [agent_type |-> Assistant, action_content |-> StepContent.tool_y]>>,
     <<Event(Critic, StepContent.bad_result, NotIso(SoonText)),
       Event(Planner, StepContent.plan, NotIso(<<>>))>>,
     <<Event(Planner, StepContent.plan, IsoAware(1)),
       Event(Critic, StepContent.bad_result, IsoAware(0))>>,
     <<Event(Planner, StepContent.plan, IsoAware(1)),
       [agent_type |-> Planner, action_content |-> StepContent.plan]>>,
     <<[agent_type |-> Planner, timestamp |-> IsoAware(1)],
       [action_content |-> StepContent.faulty_step]>>}

\* the cards given to serialize: two of them at the same time, one earlier
SerializeCards ==
    {AtomicEvidenceCard("e1", StepContent.plan, Planner, Naive(2)),
     AtomicEvidenceCard("e2", StepContent.used_tool_x, Assistant, Naive(1)),
     AtomicEvidenceCard("e3", StepContent.bad_result, Critic, Naive(2))}

\* the lists given to serialize: any order, a card more than once, the empty list
SerializeInputs ==
    {<<>>} \cup UNION {[1..n -> SerializeCards] : n \in 1..3}

Results == {1, -1}

Modes == {SimpleKeywords, RandomChoice, OtherModeText}

\* the commit as it would be if both stores were given the cards, the pathway and
\* the insight
commit_sharing(self, evidence_cards, result, hdpm_instance, drawn) ==
    LET policy_pathway == serialize(evidence_cards, PathwayId(drawn + 1))
        target == target_memory_store(result)
        filled == with_cards_and_pathway(hdpm_instance[target], evidence_cards, policy_pathway)
    IN  {LET insight == Insight(content, policy_pathway.id, NewInsightId(drawn + 2))
             linked == add_insight(filled, insight)
         IN  [raised |-> FALSE,
              hdpm |-> [positive_memory |-> linked, negative_memory |-> linked],
              insight |-> <<insight>>,
              pathway |-> <<linked.pathways[policy_pathway.id]>>,
              evidence_cards |-> evidence_cards,
              uuid |-> drawn + 2] :
            content \in distill(self.llm_simulation_mode, policy_pathway, filled, result)}

\* lines 220-239 of update_memory: the outcomes of committing the cards
commit(self, evidence_cards, result, hdpm_instance, drawn) ==
    LET policy_pathway == serialize(evidence_cards, PathwayId(drawn + 1))
        target == target_memory_store(result)
        filled == with_cards_and_pathway(hdpm_instance[target], evidence_cards, policy_pathway)
    IN  {LET insight == Insight(content, policy_pathway.id, NewInsightId(drawn + 2))
             linked == add_insight(filled, insight)
         IN  [raised |-> FALSE,
              hdpm |-> [hdpm_instance EXCEPT ![target] = linked],
              insight |-> <<insight>>,
              pathway |-> <<linked.pathways[policy_pathway.id]>>,
              evidence_cards |-> evidence_cards,
              uuid |-> drawn + 2] :
            content \in distill(self.llm_simulation_mode, policy_pathway, filled, result)}

\* return None, None, []
NothingToUpdate(hdpm_instance, drawn) ==
    [raised |-> FALSE, hdpm |-> hdpm_instance, insight |-> <<>>, pathway |-> <<>>,
     evidence_cards |-> <<>>, uuid |-> drawn]

\* the TypeError of the sort of atomize leaving update_memory
Raised(hdpm_instance, drawn) ==
    [raised |-> TRUE, hdpm |-> hdpm_instance, insight |-> <<>>, pathway |-> <<>>,
     evidence_cards |-> <<>>, uuid |-> drawn]

\* update_memory as it would be without its two guards on emptiness
update_memory_unguarded(self, trajectory, result, hdpm_instance, now, crossing, drawn) ==
    IF atomize_raises(trajectory, now, crossing, drawn)
    THEN {Raised(hdpm_instance, drawn + Len(trajectory))}
    ELSE commit(self, atomize(trajectory, now, crossing, drawn), result, hdpm_instance,
                drawn + Len(trajectory))

\* ReflectAgent.update_memory: its outcomes, each with the HDPM it leaves, what it
\* returns and the number of uuids drawn so far
update_memory(self, trajectory, result, hdpm_instance, now, crossing, drawn) ==
    IF trajectory = <<>> THEN {NothingToUpdate(hdpm_instance, drawn)}
    ELSE IF atomize_raises(trajectory, now, crossing, drawn)
    THEN {Raised(hdpm_instance, drawn + Len(trajectory))}
    ELSE IF atomize(trajectory, now, crossing, drawn) = <<>>
    THEN {NothingToUpdate(hdpm_instance, drawn + Len(trajectory))}
    ELSE commit(self, atomize(trajectory, now, crossing, drawn), result, hdpm_instance,
                drawn + Len(trajectory))

\* the uuids update_memory draws at most: one for each card, one for the pathway and
\* one for the insight
UuidsDrawn(trajectory) == IF trajectory = <<>> THEN 0 ELSE Len(trajectory) + 2

\* ReflectAgent(llm_simulation_mode=mode)
NewReflectAgent ==
    \E mode \in Modes :
        /\ reflect_agent' = ReflectAgent(mode)
        /\ call' = [op |-> "ReflectAgent"]
        /\ UNCHANGED <<store, hdpm, clock, uuid>>

\* a second passes
Tick ==
    /\ clock < MaxClock
    /\ clock' = clock + 1
    /\ call' = [op |-> "tick"]
    /\ UNCHANGED <<store, hdpm, reflect_agent, uuid>>

\* reflect_agent.update_memory(trajectory, result, hdpm) for a trajectory of the
\* given ones; the clock's second changes after `crossing` steps of the loop of
\* atomize, or not at all
UpdateMemoryOf(trajectories) ==
    \E trajectory \in trajectories, result \in Results :
      \E crossing \in 0..Len(trajectory) :
        /\ uuid + UuidsDrawn(trajectory) <= MaxUuid
        /\ crossing < Len(trajectory) => clock < MaxClock
        /\ \E outcome \in update_memory(reflect_agent, trajectory, result, hdpm, clock,
                                        crossing, uuid) :
            /\ hdpm' = outcome.hdpm
            /\ uuid' = outcome.uuid
            /\ call' = [op |-> "update_memory", trajectory |-> trajectory,
                        result |-> result, raised |-> outcome.raised,
                        insight |-> outcome.insight, pathway |-> outcome.pathway,
                        evidence_cards |-> outcome.evidence_cards]
        /\ clock' = IF crossing < Len(trajectory) THEN clock + 1 ELSE clock
        /\ UNCHANGED <<store, reflect_agent>>

UpdateMemory == UpdateMemoryOf(Trajectories)

\* reflect_agent.atomize(trajectory); now is what datetime.now() returns at the last
\* step
Atomize ==
    \E trajectory \in Trajectories :
      \E crossing \in 0..Len(trajectory) :
        /\ uuid + Len(trajectory) <= MaxUuid
        /\ crossing < Len(trajectory) => clock < MaxClock
        /\ clock' = IF crossing < Len(trajectory) THEN clock + 1 ELSE clock
        /\ uuid' = uuid + Len(trajectory)
        /\ call' = [op |-> "atomize", trajectory |-> trajectory, now |-> clock',
                    raised |-> atomize_raises(trajectory, clock, crossing, uuid),
                    evidence_cards |->
                        IF atomize_raises(trajectory, clock, crossing, uuid) THEN <<>>
                        ELSE atomize(trajectory, clock, crossing, uuid)]
        /\ UNCHANGED <<store, hdpm, reflect_agent>>

\* reflect_agent.serialize(evidence_cards)
Serialize ==
    \E evidence_cards \in SerializeInputs :
        /\ uuid + 1 <= MaxUuid
        /\ uuid' = uuid + 1
        /\ call' = [op |-> "serialize", evidence_cards |-> evidence_cards,
                    pathway |-> serialize(evidence_cards, PathwayId(uuid + 1))]
        /\ UNCHANGED <<store, hdpm, reflect_agent, clock>>

NextReflect ==
    \/ NewReflectAgent
    \/ Tick
    \/ UpdateMemory

SpecReflect == Init /\ [][NextReflect]_vars

\* update_memory one statement at a time: lines 211-218, the guards, atomize and
\* serialize. The call returns at once for nothing to update or a TypeError, or else
\* stands before the loop over the cards with `added` of them in the store
BeginUpdateMemory ==
    \E trajectory \in Trajectories, result \in Results :
      \E crossing \in 0..Len(trajectory) :
        /\ "at" \in DOMAIN call => call.at = "return"
        /\ uuid + UuidsDrawn(trajectory) <= MaxUuid
        /\ crossing < Len(trajectory) => clock < MaxClock
        /\ clock' = IF crossing < Len(trajectory) THEN clock + 1 ELSE clock
        /\ LET raised == trajectory # <<>> /\ atomize_raises(trajectory, clock, crossing, uuid)
               evidence_cards == IF trajectory = <<>> \/ raised THEN <<>>
                                 ELSE atomize(trajectory, clock, crossing, uuid)
               drawn == uuid + Len(trajectory)
           IN  IF evidence_cards = <<>>
               THEN /\ call' = [op |-> "update_memory", at |-> "return",
                                trajectory |-> trajectory, result |-> result,
                                raised |-> raised, insight |-> <<>>, pathway |-> <<>>,
                                evidence_cards |-> <<>>,
                                before |-> hdpm, now |-> clock, crossing |-> crossing,
                                drawn |-> uuid]
                    /\ uuid' = drawn
               ELSE /\ call' = [op |-> "update_memory", at |-> "add_evidence_card",
                                trajectory |-> trajectory, result |-> result,
                                evidence_cards |-> evidence_cards,
                                policy_pathway |-> serialize(evidence_cards, PathwayId(drawn + 1)),
                                added |-> 0,
                                before |-> hdpm, now |-> clock, crossing |-> crossing,
                                drawn |-> uuid]
                    /\ uuid' = drawn + 1
        /\ UNCHANGED <<store, hdpm, reflect_agent>>

\* one turn of the loop as it would be if add_evidence_card stored nothing
CommitEvidenceCardDropping ==
    /\ call.op = "update_memory"
    /\ "at" \in DOMAIN call
    /\ call.at = "add_evidence_card"
    /\ call' = [call EXCEPT !.added = @ + 1,
                            !.at = IF call.added + 1 = Len(call.evidence_cards)
                                   THEN "add_policy_pathway" ELSE @]
    /\ UNCHANGED <<store, hdpm, reflect_agent, clock, uuid>>

\* lines 225-226, one turn of the loop: target_memory_store.add_evidence_card(card)
CommitEvidenceCard ==
    /\ call.op = "update_memory"
    /\ "at" \in DOMAIN call
    /\ call.at = "add_evidence_card"
    /\ hdpm' = [hdpm EXCEPT ![target_memory_store(call.result)] =
                    add_evidence_card(@, call.evidence_cards[call.added + 1])]
    /\ call' = [call EXCEPT !.added = @ + 1,
                            !.at = IF call.added + 1 = Len(call.evidence_cards)
                                   THEN "add_policy_pathway" ELSE @]
    /\ UNCHANGED <<store, reflect_agent, clock, uuid>>

\* line 229: target_memory_store.add_policy_pathway(policy_pathway)
CommitPolicyPathway ==
    /\ call.op = "update_memory"
    /\ "at" \in DOMAIN call
    /\ call.at = "add_policy_pathway"
    /\ hdpm' = [hdpm EXCEPT ![target_memory_store(call.result)] =
                    add_policy_pathway(@, call.policy_pathway)]
    /\ call' = [call EXCEPT !.at = "add_insight"]
    /\ UNCHANGED <<store, reflect_agent, clock, uuid>>

\* lines 233-239: distill, target_memory_store.add_insight(insight) and the return
CommitInsight ==
    /\ call.op = "update_memory"
    /\ "at" \in DOMAIN call
    /\ call.at = "add_insight"
    /\ LET target == target_memory_store(call.result)
       IN  \E content \in distill(reflect_agent.llm_simulation_mode, call.policy_pathway,
                                  hdpm[target], call.result) :
             LET insight == Insight(content, call.policy_pathway.id, NewInsightId(uuid + 1))
                 linked == add_insight(hdpm[target], insight)
             IN  /\ hdpm' = [hdpm EXCEPT ![target] = linked]
                 /\ call' = [op |-> "update_memory", at |-> "return",
                             trajectory |-> call.trajectory, result |-> call.result,
                             raised |-> FALSE, insight |-> <<insight>>,
                             pathway |-> <<linked.pathways[call.policy_pathway.id]>>,
                             evidence_cards |-> call.evidence_cards,
                             before |-> call.before, now |-> call.now,
                             crossing |-> call.crossing, drawn |-> call.drawn]
    /\ uuid' = uuid + 1
    /\ UNCHANGED <<store, reflect_agent, clock>>

\* the calls of update_memory on one HDPM, observed between their statements; the
\* agent is replaced between calls only
NextCommit ==
    \/ ("at" \in DOMAIN call => call.at = "return") /\ NewReflectAgent
    \/ BeginUpdateMemory
    \/ CommitEvidenceCard
    \/ CommitPolicyPathway
    \/ CommitInsight

SpecCommit == Init /\ [][NextCommit]_vars

\* the stages of reflection called on their own
NextStages ==
    \/ Tick
    \/ Atomize
    \/ Serialize

SpecStages == Init /\ [][NextStages]_vars

\* ------------------------------------------------------ the callers of distill

\* a content longer than the 150 characters the random strategy keeps of a card: the
\* word "good" and a filling
LongContent == [k \in 1..LongLen |-> IF k <= 4 THEN Word.good[k] ELSE "x"]

\* the cards the store is given before distill is called: a Planner with the long
\* content, two Assistants naming a tool, a Critic
DistillCards ==
    {AtomicEvidenceCard("d1", LongContent, Planner, Naive(1)),
     AtomicEvidenceCard("d2", StepContent.used_tool_x, Assistant, Naive(2)),
     AtomicEvidenceCard("d3", StepContent.bad_result, Critic, Naive(2)),
     AtomicEvidenceCard("d4", StepContent.tool_y, Assistant, Naive(0))}

\* the pathways: without card ids, with a dangling id only, with the four cards and
\* a dangling id; p1 is given to the store, p1 and p2 to distill
DistillIdLists == {<<>>, <<"d9">>, <<"d1", "d2", "d3", "d4", "d9">>}

\* whether distill calls memory_store.get_evidence_cards_for_pathway
distill_reads_store(llm_simulation_mode) ==
    llm_simulation_mode \in {SimpleKeywords, RandomChoice}

\* whether distill reaches the loop of the keyword strategy or random.choice
distill_scans(llm_simulation_mode, policy_pathway, s) ==
    /\ distill_reads_store(llm_simulation_mode)
    /\ get_evidence_cards_for_pathway(s, policy_pathway.id) # <<>>

AddDistillCard ==
    \E card \in DistillCards :
        /\ store' = add_evidence_card(store, card)
        /\ call' = [op |-> "add_evidence_card", card |-> card]
        /\ UNCHANGED <<hdpm, reflect_agent, clock, uuid>>

AddDistillPathway ==
    \E ids \in DistillIdLists :
        /\ store' = add_policy_pathway(store, PolicyPathway(ids, "p1", None))
        /\ call' = [op |-> "add_policy_pathway", pathway |-> PolicyPathway(ids, "p1", None)]
        /\ UNCHANGED <<hdpm, reflect_agent, clock, uuid>>

\* reflect_agent.distill(policy_pathway, store, result)
Distill ==
    \E ids \in DistillIdLists, pathway_id \in {"p1", "p2"}, result \in Results :
      LET policy_pathway == PolicyPathway(ids, pathway_id, None)
          mode == reflect_agent.llm_simulation_mode
      IN  /\ uuid < MaxUuid
          /\ \E content \in distill(mode, policy_pathway, store, result) :
                call' = [op |-> "distill", llm_simulation_mode |-> mode,
                         policy_pathway |-> policy_pathway, result |-> result,
                         raised |-> FALSE,
                         store_read |-> distill_reads_store(mode),
                         scanned |-> distill_scans(mode, policy_pathway, store),
                         insight |-> Insight(content, policy_pathway.id,
                                             NewInsightId(uuid + 1))]
          /\ uuid' = uuid + 1
          /\ UNCHANGED <<store, hdpm, reflect_agent, clock>>

NextDistill ==
    \/ NewReflectAgent
    \/ AddDistillCard
    \/ AddDistillPathway
    \/ Distill

SpecDistill == Init /\ [][NextDistill]_vars

\* ---------------------------------- the callers of _format_evidence_for_scaffold

\* the cards of the store: four of the Assistant, the first later than the second,
\* the others at the time of the second, and one of the Critic
FormatCardPool ==
    {AtomicEvidenceCard("f1", StepContent.used_tool_x, Assistant, Naive(2)),
     AtomicEvidenceCard("f2", StepContent.tool_y, Assistant, Naive(1)),
     AtomicEvidenceCard("f3", StepContent.plan, Assistant, Naive(1)),
     AtomicEvidenceCard("f4", StepContent.faulty_step, Assistant, Naive(1)),
     AtomicEvidenceCard("f5", StepContent.bad_result, Critic, Naive(0))}

\* the pathways of the store: p1 without ids, with a dangling id, with the Critic's
\* card only, or with two cards of the Assistant and the Critic's; p2 with two or
\* four cards of the Assistant
FormatPathwayPool ==
    {PolicyPathway(ids, "p1", None) :
        ids \in {<<>>, <<"f9">>, <<"f5">>, <<"f1", "f2", "f5">>}}
    \cup {PolicyPathway(ids, "p2", None) :
        ids \in {<<"f3", "f4">>, <<"f4", "f3", "f2", "f1">>}}

\* the lists of pathways given: none, one, two in either order, one twice, one that
\* is not stored
FormatPathwayIdLists ==
    {<<>>, <<"p1">>, <<"p2">>, <<"p1", "p2">>, <<"p2", "p1">>, <<"p2", "p2">>, <<"p3">>}

AddFormatCard ==
    \E card \in FormatCardPool :
        /\ store' = add_evidence_card(store, card)
        /\ call' = [op |-> "add_evidence_card", card |-> card]
        /\ UNCHANGED <<hdpm, reflect_agent, clock, uuid>>

AddFormatPathway ==
    \E pathway \in FormatPathwayPool :
        /\ store' = add_policy_pathway(store, pathway)
        /\ call' = [op |-> "add_policy_pathway", pathway |-> pathway]
        /\ UNCHANGED <<hdpm, reflect_agent, clock, uuid>>

\* hdpm._format_evidence_for_scaffold(pathways, store, agent_role) for pathways that
\* are in the store, or for one that is not
FormatEvidenceForScaffold ==
    \E ids \in FormatPathwayIdLists, agent_role \in {Assistant, Critic} :
        /\ \A k \in 1..Len(ids) : ids[k] = "p3" \/ has_policy_pathway(store, ids[k])
        /\ LET pathways == [k \in 1..Len(ids) |->
                               IF ids[k] = "p3" THEN PolicyPathway(<<"f1">>, "p3", None)
                               ELSE store.pathways[ids[k]]]
           IN  call' = [op |-> "format_evidence_for_scaffold", pathways |-> pathways,
                        agent_role |-> agent_role,
                        text |-> format_evidence_for_scaffold(pathways, store, agent_role),
                        listed |-> FormattedEvidence(pathways, store, agent_role).listed]
        /\ UNCHANGED <<store, hdpm, reflect_agent, clock, uuid>>

NextFormat ==
    \/ AddFormatCard
    \/ AddFormatPathway
    \/ FormatEvidenceForScaffold

SpecFormat == Init /\ [][NextFormat]_vars

\* ------------------------------------------------------- the HDPM's callers

QueryPlan == <<"p", "l", "a", "n", " ", "t", "o", "o", "l", "s">>

BriefingQueries == {QueryPlan}

\* the trajectories given to update_memory between the calls on the stores: none, and
\* one step of an Assistant
HdpmTrajectories == {<<>>, <<Event(Assistant, StepContent.used_tool_x, IsoNaive(1))>>}

\* what the callers add to the stores of the HDPM: a card id given two cards, a
\* pathway with a dangling card id, an insight of that pathway and, under the same
\* insight id, an insight of a pathway that is not stored
HdpmCards ==
    {AtomicEvidenceCard("e1", StepContent.used_tool_x, Assistant, Naive(1)),
     AtomicEvidenceCard("e1", StepContent.bad_result, Critic, Naive(0))}

HdpmPathways == {PolicyPathway(<<"e1", "e9">>, "p1", None)}

HdpmInsights == {Insight(ContentSuperFold, "p1", "i1"), Insight(StepContent.plan, "p9", "i1")}

\* len(evidence) + len(pathways) + len(insights) over both stores
Entities(self) ==
    LET Size(s) == Cardinality(DOMAIN s.evidence) + Cardinality(DOMAIN s.pathways)
                       + Len(s.insights)
    IN  Size(self.positive_memory) + Size(self.negative_memory)

\* hdpm.positive_memory.add_evidence_card(card), or on hdpm.negative_memory
HdpmAddEvidenceCard ==
    \E m \in {"positive_memory", "negative_memory"}, card \in HdpmCards :
        /\ Entities(hdpm) < MaxEntities
        /\ hdpm' = [hdpm EXCEPT ![m] = add_evidence_card(@, card)]
        /\ call' = [op |-> "add_evidence_card", memory |-> m, card |-> card]
        /\ UNCHANGED <<store, reflect_agent, clock, uuid>>

HdpmAddPolicyPathway ==
    \E m \in {"positive_memory", "negative_memory"}, pathway \in HdpmPathways :
        /\ Entities(hdpm) < MaxEntities
        /\ hdpm' = [hdpm EXCEPT ![m] = add_policy_pathway(@, pathway)]
        /\ call' = [op |-> "add_policy_pathway", memory |-> m, pathway |-> pathway]
        /\ UNCHANGED <<store, reflect_agent, clock, uuid>>

HdpmAddInsight ==
    \E m \in {"positive_memory", "negative_memory"}, insight \in HdpmInsights :
        /\ Entities(hdpm) < MaxEntities
        /\ hdpm' = [hdpm EXCEPT ![m] = add_insight(@, insight)]
        /\ call' = [op |-> "add_insight", memory |-> m, insight |-> insight]
        /\ UNCHANGED <<store, reflect_agent, clock, uuid>>

\* reflect_agent.update_memory(trajectory, result, hdpm) while the HDPM has room
HdpmUpdateMemory ==
    /\ Entities(hdpm) < MaxEntities
    /\ UpdateMemoryOf(HdpmTrajectories)

\* global_co_retrieval as it would be if it took the insights out of the positive
\* store
GlobalCoRetrievalConsuming ==
    \E query \in BriefingQueries, top_k \in 0..1 :
        /\ call' = [op |-> "global_co_retrieval", query |-> query, top_k |-> top_k,
                    result |-> global_co_retrieval(hdpm, query, top_k)]
        /\ hdpm' = [hdpm EXCEPT !.positive_memory.insights = <<>>]
        /\ UNCHANGED <<store, reflect_agent, clock, uuid>>

\* hdpm.global_co_retrieval(query, top_k)
GlobalCoRetrieval ==
    \E query \in BriefingQueries, top_k \in 0..1 :
        /\ call' = [op |-> "global_co_retrieval", query |-> query, top_k |-> top_k,
                    result |-> global_co_retrieval(hdpm, query, top_k)]
        /\ UNCHANGED <<store, hdpm, reflect_agent, clock, uuid>>

\* hdpm.generate_role_specific_prompts(query, top_k_retrieval)
GenerateRoleSpecificPrompts ==
    \E query \in BriefingQueries, top_k_retrieval \in 0..1 :
        /\ call' = [op |-> "generate_role_specific_prompts", query |-> query,
                    top_k_retrieval |-> top_k_retrieval,
                    prompts |-> generate_role_specific_prompts(hdpm, query, top_k_retrieval)]
        /\ UNCHANGED <<store, hdpm, reflect_agent, clock, uuid>>

NextHdpm ==
    \/ HdpmAddEvidenceCard
    \/ HdpmAddPolicyPathway
    \/ HdpmAddInsight
    \/ HdpmUpdateMemory
    \/ GlobalCoRetrieval
    \/ GenerateRoleSpecificPrompts

SpecHdpm == Init /\ [][NextHdpm]_vars

\* ------------------------------------------------------------ the claims

Count(s, x) == Cardinality({k \in 1..Len(s) : s[k] = x})

CardIds(cards) == [k \in 1..Len(cards) |-> cards[k].id]

LinkOf(s, pathway_id) == s.pathways[pathway_id].linked_insight_id

C2_AddInsightLinks ==
    [][(call'.op = "add_insight"
          /\ call'.insight.source_pathway_id \in DOMAIN store.pathways) =>
        LET i == call'.insight IN
            /\ DOMAIN store'.pathways = DOMAIN store.pathways
            /\ LinkOf(store', i.source_pathway_id) = i.id
            /\ \A p \in DOMAIN store.pathways \ {i.source_pathway_id} :
                   store'.pathways[p] = store.pathways[p]]_vars

\* after add_insight has linked one of two stored pathways, the other still unlinked
C2_Witness ==
    /\ call.op = "add_insight"
    /\ ~call.warned
    /\ DOMAIN store.pathways = {"p1", "p2"}
    /\ LinkOf(store, call.insight.source_pathway_id) = call.insight.id
    /\ \E p \in DOMAIN store.pathways :
           p # call.insight.source_pathway_id /\ LinkOf(store, p) = None

HasInsight(s, insight) == \E k \in 1..Len(s.insights) : s.insights[k] = insight

\* C3: add_insight(i) with i.source_pathway_id not a key of the pathway mapping does
\* not fail (it prints the warning), stores the insight under i.id and changes no
\* pathway; add_policy_pathway stores the pathway with the link it was built with, so
\* a pathway built unlinked stays unlinked when an insight already names it.
C3_OrphanInsightStoredNoRelink ==
    [][/\ (call'.op = "add_insight"
             /\ call'.insight.source_pathway_id \notin DOMAIN store.pathways) =>
              /\ call'.warned
              /\ HasInsight(store', call'.insight)
              /\ Cardinality({k \in 1..Len(store'.insights) :
                                 store'.insights[k].id = call'.insight.id}) = 1
              /\ store'.pathways = store.pathways
       /\ call'.op = "add_policy_pathway" =>
              /\ store'.pathways[call'.pathway.id] = call'.pathway
              /\ store'.insights = store.insights]_vars

\* a pathway added unlinked after an insight that names it as its source
C3_Witness ==
    /\ call.op = "add_policy_pathway"
    /\ call.pathway.linked_insight_id = None
    /\ \E k \in 1..Len(store.insights) :
           store.insights[k].source_pathway_id = call.pathway.id
    /\ LinkOf(store, call.pathway.id) = None

\* C4 as stated: once the pathway stored under an id has a non-null
\* linked_insight_id, that id's link never takes a different value.
C4_LinkSetAtMostOnce ==
    [][\A p \in DOMAIN store.pathways :
           LinkOf(store, p) # None =>
               (p \in DOMAIN store'.pathways /\ LinkOf(store', p) = LinkOf(store, p))]_vars

\* C4 as amended: a pathway stays stored, and the link stored under its id changes
\* only in an add_insight call whose source_pathway_id is that id (to that insight's
\* id, whatever the link was) or in an add_policy_pathway call for that id (to the
\* link the new pathway was built with); no other call changes it.
C4_LinkChangesOnlyByLinkOrUpsert ==
    [][\A p \in DOMAIN store.pathways :
           /\ p \in DOMAIN store'.pathways
           /\ LinkOf(store', p) # LinkOf(store, p) =>
                  \/ /\ call'.op = "add_insight"
                     /\ call'.insight.source_pathway_id = p
                     /\ LinkOf(store', p) = call'.insight.id
                  \/ /\ call'.op = "add_policy_pathway"
                     /\ call'.pathway.id = p
                     /\ LinkOf(store', p) = call'.pathway.linked_insight_id]_vars

\* a pathway linked to the second of two insights distilled from it
C4_Witness ==
    /\ call.op = "add_insight"
    /\ ~call.warned
    /\ call.insight.id = "i2"
    /\ LinkOf(store, call.insight.source_pathway_id) = "i2"
    /\ \E k \in 1..Len(store.insights) :
           /\ store.insights[k].id = "i1"
           /\ store.insights[k].source_pathway_id = call.insight.source_pathway_id
    /\ store.insights[1].id = "i1"

SameIdsAndLinks(a, b) ==
    /\ DOMAIN a.evidence = DOMAIN b.evidence
    /\ DOMAIN a.pathways = DOMAIN b.pathways
    /\ InsightIds(a) = InsightIds(b)
    /\ \A p \in DOMAIN a.pathways : LinkOf(a, p) = LinkOf(b, p)

\* C5 as stated: MemoryStore.from_dict(store.to_dict()) has the same evidence,
\* pathway and insight id sets and the same linked_insight_id for every pathway as
\* the store, for every store the add_* calls can build.
C5_RoundTripSameLinks ==
    call.op = "round_trip" => SameIdsAndLinks(call.reloaded, store)

\* the insights of s distilled from pathway p, in iteration order
InsightsOf(s, p) ==
    LET From(i) == i.source_pathway_id = p IN SelectSeq(s.insights, From)

\* C5 as amended: the reloaded store has the same evidence, pathway and insight id
\* sets (the insights in the same iteration order), and the linked_insight_id of a
\* pathway is the id of the last insight, in iteration order, whose
\* source_pathway_id is that pathway, or the store's own link when no insight names
\* the pathway.
C5_RoundTripRelinks ==
    call.op = "round_trip" =>
        LET r == call.reloaded IN
            /\ DOMAIN r.evidence = DOMAIN store.evidence
            /\ DOMAIN r.pathways = DOMAIN store.pathways
            /\ CardIds(r.insights) = CardIds(store.insights)
            /\ \A p \in DOMAIN store.pathways :
                   LinkOf(r, p) =
                       IF InsightsOf(store, p) = <<>> THEN LinkOf(store, p)
                       ELSE InsightsOf(store, p)[Len(InsightsOf(store, p))].id

\* a store whose pathway is unlinked though an insight names it, linked once reloaded
C5_Witness ==
    /\ call.op = "round_trip"
    /\ \E p \in DOMAIN store.pathways :
           /\ LinkOf(store, p) = None
           /\ LinkOf(call.reloaded, p) # None
    /\ DOMAIN store.evidence # {}

Max(a, b) == IF a > b THEN a ELSE b

\* C6 as stated: the two lists retrieval returns have the same length, at most
\* top_k, and pathways[k].id = insights[k].source_pathway_id at every index k.
C6_AlignedAtMostTopK ==
    call.op = "retrieve" =>
        LET r == call.result IN
            /\ Len(r.insights) = Len(r.pathways)
            /\ Len(r.insights) <= call.top_k
            /\ \A k \in 1..Len(r.insights) :
                   r.pathways[k].id = r.insights[k].source_pathway_id

\* C6 as amended: the two lists have the same length, at most max(top_k, 0), and
\* pathways[k] is the stored pathway whose id is insights[k].source_pathway_id.
C6_AlignedAtMostTopKOrZero ==
    call.op = "retrieve" =>
        LET r == call.result IN
            /\ Len(r.insights) = Len(r.pathways)
            /\ Len(r.insights) <= Max(call.top_k, 0)
            /\ \A k \in 1..Len(r.insights) :
                   /\ r.pathways[k].id = r.insights[k].source_pathway_id
                   /\ r.pathways[k].id \in DOMAIN store.pathways
                   /\ r.pathways[k] = store.pathways[r.pathways[k].id]

\* a retrieval that returns a pair and drops an insight whose pathway is missing
C6_Witness ==
    /\ call.op = "retrieve"
    /\ call.top_k >= 2
    /\ Len(call.result.insights) >= 1
    /\ Len(call.result.warned) >= 1

\* the place of the k-th insight of s in the ranking for query: one more than the
\* number of insights that score higher, or score the same and come earlier
RankOf(query, s, k) ==
    1 + Cardinality({j \in 1..Len(s.insights) :
            \/ Score(query, s.insights[j]) > Score(query, s.insights[k])
            \/ /\ Score(query, s.insights[j]) = Score(query, s.insights[k])
               /\ j < k})

\* the insights of s with a positive score, by score descending, ties in iteration order
Ranking(query, s) ==
    LET pos == {k \in 1..Len(s.insights) : Score(query, s.insights[k]) > 0}
    IN  [q \in 1..Cardinality(pos) |->
            s.insights[CHOOSE k \in pos : RankOf(query, s, k) = q]]

\* C7: the insights returned are, in order, the first top_k entries of the ranking
\* of the positive-score insights (score descending, ties in iteration order) less
\* those whose source pathway is not in the store: no insight of score 0 is
\* returned, and no lower-ranked insight takes the place of a dropped one.
C7_TopOfStableRanking ==
    call.op = "retrieve" =>
        LET Stored(i) == i.source_pathway_id \in DOMAIN store.pathways
            first == Take(Ranking(call.query, store), Max(call.top_k, 0))
        IN  /\ call.result.insights = SelectSeq(first, Stored)
            /\ \A k \in 1..Len(call.result.insights) :
                   Score(call.query, call.result.insights[k]) > 0

\* top_k = 2 of three scoring insights: the best is dropped for its missing pathway,
\* the second is returned alone, and two insights tie
C7_Witness ==
    /\ call.op = "retrieve"
    /\ call.top_k = 2
    /\ Len(store.insights) = 3
    /\ \A k \in 1..3 : Score(call.query, store.insights[k]) > 0
    /\ Score(call.query, store.insights[1]) < Score(call.query, store.insights[2])
    /\ Score(call.query, store.insights[2]) = Score(call.query, store.insights[3])
    /\ call.result.warned = <<store.insights[2]>>
    /\ call.result.insights = <<store.insights[3]>>
    /\ store.insights[1].source_pathway_id \in DOMAIN store.pathways

\* C8: retrieval with top_k <= 0 returns two empty lists, raises nothing and goes
\* through no insight.
C8_NonPositiveTopKReturnsEmpty ==
    (call.op = "retrieve" /\ call.top_k <= 0) =>
        /\ call.result.insights = <<>>
        /\ call.result.pathways = <<>>
        /\ call.result.warned = <<>>
        /\ call.result.examined = 0

\* top_k = 0 on a store holding an insight the query matches, its pathway stored
C8_Witness ==
    /\ call.op = "retrieve"
    /\ call.top_k = 0
    /\ \E k \in 1..Len(store.insights) :
           /\ Score(call.query, store.insights[k]) > 0
           /\ store.insights[k].source_pathway_id \in DOMAIN store.pathways
    /\ call.result.insights = <<>>

\* the store update_memory routes a result to, and the other one
Routed(result) == IF result = 1 THEN "positive_memory" ELSE "negative_memory"

NotRouted(result) == IF result = 1 THEN "negative_memory" ELSE "positive_memory"

\* C9: update_memory on a non-empty trajectory of n steps with result +1 or -1 adds
\* exactly n evidence cards, one pathway and one insight to the store the result
\* routes to, leaves that pathway linked to the new insight and leaves the other store
\* unchanged; the insight, the pathway and the cards it returns are the ones stored.
C9_UpdateMemoryCommits ==
    [][(/\ call'.op = "update_memory"
        /\ call'.trajectory # <<>>
        /\ call'.result \in {1, -1})
       => LET before == hdpm[Routed(call'.result)]
              after == hdpm'[Routed(call'.result)]
              cards == call'.evidence_cards
          IN  /\ Len(cards) = Len(call'.trajectory)
              /\ Cardinality(DOMAIN after.evidence)
                     = Cardinality(DOMAIN before.evidence) + Len(call'.trajectory)
              /\ \A k \in 1..Len(cards) :
                     /\ cards[k].id \notin DOMAIN before.evidence
                     /\ has_evidence_card(after, cards[k].id)
                     /\ after.evidence[cards[k].id] = cards[k]
              /\ \A id \in DOMAIN before.evidence :
                     has_evidence_card(after, id) /\ after.evidence[id] = before.evidence[id]
              /\ Len(call'.pathway) = 1
              /\ DOMAIN after.pathways = DOMAIN before.pathways \cup {call'.pathway[1].id}
              /\ call'.pathway[1].id \notin DOMAIN before.pathways
              /\ after.pathways[call'.pathway[1].id] = call'.pathway[1]
              /\ \A id \in DOMAIN before.pathways : after.pathways[id] = before.pathways[id]
              /\ Len(call'.insight) = 1
              /\ call'.insight[1].id \notin InsightIds(before)
              /\ after.insights = Append(before.insights, call'.insight[1])
              /\ LinkOf(after, call'.pathway[1].id) = call'.insight[1].id
              /\ call'.insight[1].source_pathway_id = call'.pathway[1].id
              /\ hdpm'[NotRouted(call'.result)] = hdpm[NotRouted(call'.result)]]_vars

\* C10: update_memory with an empty trajectory returns (None, None, []) whatever the
\* result, and leaves the evidence, the pathways and the insights of the positive and
\* of the negative store as they were.
C10_EmptyTrajectoryNoUpdate ==
    [][(call'.op = "update_memory" /\ call'.trajectory = <<>>)
       => /\ ~call'.raised
          /\ call'.insight = <<>>
          /\ call'.pathway = <<>>
          /\ call'.evidence_cards = <<>>
          /\ hdpm'.positive_memory = hdpm.positive_memory
          /\ hdpm'.negative_memory = hdpm.negative_memory]_vars

\* an empty trajectory has been given, with result -1, to an HDPM whose stores both
\* hold insights
C10_Witness ==
    /\ call.op = "update_memory"
    /\ call.trajectory = <<>>
    /\ call.result = -1
    /\ ~call.raised
    /\ call.insight = <<>>
    /\ hdpm.positive_memory.insights # <<>>
    /\ hdpm.negative_memory.insights # <<>>

\* C11: no exception leaves update_memory (atomize, serialize, distill, commit),
\* whatever the steps of the trajectory carry (agent_type, action_content and
\* timestamp each optional; the timestamp ISO-8601 with or without a UTC offset, or
\* unparseable), for an empty trajectory and for any distillation strategy name.
C11_NoExceptionPropagates ==
    call.op = "update_memory" => ~call.raised

\* the card atomize made of step k of the trajectory of the last call: the cards take
\* the uuids drawn in the order of the steps
StepCardId(k) == CardId(uuid - Len(call.trajectory) + k)

StepCards(k) ==
    LET OfStep(card) == card.id = StepCardId(k) IN SelectSeq(call.evidence_cards, OfStep)

\* whether step k of the trajectory of the last call carries a timestamp that is not
\* ISO-8601
Unparseable(k) ==
    /\ has_timestamp(call.trajectory[k])
    /\ fromisoformat_raises(call.trajectory[k].timestamp)

\* C12: atomize returns one card for each step of the trajectory, so as many cards
\* as steps (none for an empty trajectory); a step that cannot be processed is
\* replaced by one card with agent_type 'SystemError'.
C12_OneCardPerStep ==
    call.op = "atomize" =>
        /\ ~call.raised
        /\ Len(call.evidence_cards) = Len(call.trajectory)
        /\ \A k \in 1..Len(call.trajectory) :
               /\ Len(StepCards(k)) = 1
               /\ Unparseable(k) => StepCards(k)[1].agent_type = SystemError

EvidenceIds(s) == DOMAIN s.evidence

PathwayIds(s) == DOMAIN s.pathways

\* C13: after any sequence of update_memory calls with results +1 and -1 the two
\* stores share no evidence id, no pathway id and no insight id, and the cards, the
\* pathway and the insight a call created are in the store its result routes to and
\* not in the other one.
C13_StoresDisjoint ==
    /\ EvidenceIds(hdpm.positive_memory) \cap EvidenceIds(hdpm.negative_memory) = {}
    /\ PathwayIds(hdpm.positive_memory) \cap PathwayIds(hdpm.negative_memory) = {}
    /\ InsightIds(hdpm.positive_memory) \cap InsightIds(hdpm.negative_memory) = {}
    /\ (call.op = "update_memory" /\ call.insight # <<>>) =>
           LET mine == hdpm[Routed(call.result)]
               other == hdpm[NotRouted(call.result)]
           IN  /\ \A k \in 1..Len(call.evidence_cards) :
                      /\ call.evidence_cards[k].id \in EvidenceIds(mine)
                      /\ call.evidence_cards[k].id \notin EvidenceIds(other)
               /\ call.pathway[1].id \in PathwayIds(mine)
               /\ call.pathway[1].id \notin PathwayIds(other)
               /\ call.insight[1].id \in InsightIds(mine)
               /\ call.insight[1].id \notin InsightIds(other)

\* a call with result -1 has committed to the negative store after an earlier call
\* had filled the positive store
C13_Witness ==
    /\ call.op = "update_memory"
    /\ call.result = -1
    /\ call.insight # <<>>
    /\ hdpm.positive_memory.insights # <<>>
    /\ EvidenceIds(hdpm.positive_memory) # {}
    /\ EvidenceIds(hdpm.negative_memory) # {}

Stores == {"positive_memory", "negative_memory"}

\* C15: the keyword strategy is deterministic: for every store, every pathway of it
\* and every result, distill has one possible content, also when several distinct
\* tool names were collected. (The content of the random strategy is that of the card
\* random.choice picks, which the seed of the random source fixes.)
C15_KeywordDistillDeterministic ==
    \A m \in Stores : \A p \in PathwayIds(hdpm[m]) : \A result \in Results :
        Cardinality(distill(SimpleKeywords, hdpm[m].pathways[p], hdpm[m], result)) = 1

\* the content atomize gives a step without action_content
Filler(k) == AtomizeText.step \o IntToStr(k) \o AtomizeText.content_missing

\* C16: atomize turns a step without action_content into a card with the filler
\* content and the step's own agent_type, and a step without agent_type into a card
\* with agent_type 'UnknownAgent' and the step's own content; neither becomes a
\* 'SystemError' card and nothing is raised.
C16_MissingFieldsFilled ==
    call.op = "atomize" =>
        \A k \in 1..Len(call.trajectory) :
            LET step == call.trajectory[k]
                content == IF "action_content" \in DOMAIN step THEN step.action_content
                           ELSE Filler(k)
                agent_type == IF "agent_type" \in DOMAIN step THEN step.agent_type
                              ELSE UnknownAgent
            IN  ("action_content" \notin DOMAIN step \/ "agent_type" \notin DOMAIN step) =>
                    /\ ~call.raised
                    /\ Len(StepCards(k)) = 1
                    /\ StepCards(k)[1].content = content
                    /\ StepCards(k)[1].agent_type = agent_type
                    /\ StepCards(k)[1].agent_type # SystemError

\* the content and the agent_type step k of the trajectory of the last call carries,
\* or the defaults of atomize
OwnContent(k) ==
    IF "action_content" \in DOMAIN call.trajectory[k] THEN call.trajectory[k].action_content
    ELSE Filler(k)

OwnAgentType(k) ==
    IF "agent_type" \in DOMAIN call.trajectory[k] THEN call.trajectory[k].agent_type
    ELSE UnknownAgent

\* the timestamp atomize makes up for step k when now is what datetime.now() returns
\* at that step
IsSynthetic(timestamp, k, now) ==
    /\ ~timestamp.aware
    /\ timestamp.t = now - (Len(call.trajectory) - (k - 1))

\* C18: atomize gives a step whose timestamp is missing or unparseable a made-up
\* timestamp and keeps the step's own content and agent_type in the card.
C18_SyntheticTimestampKeepsStep ==
    call.op = "atomize" =>
        \A k \in 1..Len(call.trajectory) :
            (~has_timestamp(call.trajectory[k]) \/ Unparseable(k)) =>
                /\ Len(StepCards(k)) = 1
                /\ \E now \in {call.now - 1, call.now} :
                       IsSynthetic(StepCards(k)[1].timestamp, k, now)
                /\ StepCards(k)[1].content = OwnContent(k)
                /\ StepCards(k)[1].agent_type = OwnAgentType(k)

\* C19: when no step of the trajectory carries a timestamp, the timestamps atomize
\* makes up grow strictly with the index of the step, and the timestamp of the last
\* step is the current time.
C19_SyntheticTimestampsEndAtNow ==
    (/\ call.op = "atomize"
     /\ call.trajectory # <<>>
     /\ \A k \in 1..Len(call.trajectory) : ~has_timestamp(call.trajectory[k]))
    => /\ ~call.raised
       /\ \A k \in 1..Len(call.trajectory) : Len(StepCards(k)) = 1
       /\ \A k \in 1..(Len(call.trajectory) - 1) :
              StepCards(k)[1].timestamp.t < StepCards(k + 1)[1].timestamp.t
       /\ StepCards(Len(call.trajectory))[1].timestamp = Naive(call.now)

\* the timestamp of the card of the list with the given id
TimeOf(cards, id) == (CHOOSE card \in Range(cards) : card.id = id).timestamp.t

C17_ReloadLinksNamedPathways ==
    call.op = "round_trip" =>
        \A p \in PathwayIds(call.reloaded) :
            InsightsOf(store, p) # <<>> =>
                /\ LinkOf(call.reloaded, p) # None
                /\ \E k \in 1..Len(call.reloaded.insights) :
                       /\ call.reloaded.insights[k].id = LinkOf(call.reloaded, p)
                       /\ call.reloaded.insights[k].source_pathway_id = p

\* a store whose pathway is unlinked although an insight names it (the insight came
\* first) has been reloaded, and the reloaded pathway is linked
C17_Witness ==
    /\ call.op = "round_trip"
    /\ \E p \in PathwayIds(store) :
           /\ LinkOf(store, p) = None
           /\ InsightsOf(store, p) # <<>>
           /\ LinkOf(call.reloaded, p) # None

\* C14: the stores are append-only: over add_evidence_card, add_policy_pathway,
\* add_insight, update_memory, retrieval and briefing calls, an id that is a key of
\* the evidence, the pathways or the insights of a store stays a key of it.
C14_AppendOnly ==
    [][\A m \in Stores :
           /\ EvidenceIds(hdpm[m]) \subseteq EvidenceIds(hdpm'[m])
           /\ PathwayIds(hdpm[m]) \subseteq PathwayIds(hdpm'[m])
           /\ InsightIds(hdpm[m]) \subseteq InsightIds(hdpm'[m])]_vars

\* a card has been added under an id of its own to a store update_memory had filled,
\* and the briefings have been built since
C14_Witness ==
    /\ call.op = "generate_role_specific_prompts"
    /\ \E m \in Stores :
           /\ "e1" \in EvidenceIds(hdpm[m])
           /\ Cardinality(EvidenceIds(hdpm[m])) = 2
           /\ Cardinality(PathwayIds(hdpm[m])) = 1
           /\ Len(hdpm[m].insights) = 1

\* the pathway of the last distill call resolves to no card of the store
ResolvesToNothing ==
    get_evidence_cards_for_pathway(store, call.policy_pathway.id) = <<>>

\* C21: when the pathway resolves to no card of the store (no ids, pathway not stored,
\* every id dangling) distill returns, for the keyword and for the random strategy,
\* the same "No evidence cards found ..." message, and runs neither scan nor pick.
C21_NoEvidenceSameMessage ==
    (/\ call.op = "distill"
     /\ call.llm_simulation_mode \in {SimpleKeywords, RandomChoice}
     /\ ResolvesToNothing)
        => /\ call.insight.content = InsightText.no_evidence_cards
           /\ ~call.scanned

\* "Distillation mode 'llm' not recognized. Default insight generated."
DiagnosticLlm ==
    <<"D", "i", "s", "t", "i", "l", "l", "a", "t", "i", "o", "n", " ", "m", "o", "d",
      "e", " ", "'", "l", "l", "m", "'", " ", "n", "o", "t", " ", "r", "e", "c", "o",
      "g", "n", "i", "z", "e", "d", ".", " ", "D", "e", "f", "a", "u", "l", "t", " ",
      "i", "n", "s", "i", "g", "h", "t", " ", "g", "e", "n", "e", "r", "a", "t", "e",
      "d", ".">>

\* C22: whatever the strategy name given at construction, distill returns an insight
\* whose source_pathway_id is the pathway's id; with a name that is not recognized
\* the construction and the call raise nothing, the content is the diagnostic text,
\* and the store is neither read nor changed.
C22_UnrecognizedModeDiagnostic ==
    [][/\ call'.op = "ReflectAgent"
           => \E mode \in Modes : reflect_agent' = ReflectAgent(mode)
       /\ call'.op = "distill"
           => /\ call'.insight.source_pathway_id = call'.policy_pathway.id
              /\ call'.llm_simulation_mode = OtherModeText
                    => /\ ~call'.raised
                       /\ call'.insight.content = DiagnosticLlm
                       /\ ~call'.store_read
                       /\ store' = store
                       /\ hdpm' = hdpm]_vars

\* distill was called under the name "llm" for a stored pathway with cards in the store
C22_Witness ==
    /\ call.op = "distill"
    /\ call.llm_simulation_mode = OtherModeText
    /\ call.policy_pathway.id = "p1"
    /\ ~ResolvesToNothing

StartsWith(text, prefix) == Len(text) >= Len(prefix) /\ SubSeq(text, 1, Len(prefix)) = prefix

\* a card of the pathway of the last distill call has one of the words in its content
CueIn(words) ==
    \E card \in Range(get_evidence_cards_for_pathway(store, call.policy_pathway.id)) :
        ContainsAny(lower(card.content), words)

\* a Critic card of that pathway has one of the words in its content
CriticCueIn(words) ==
    \E card \in Range(get_evidence_cards_for_pathway(store, call.policy_pathway.id)) :
        card.agent_type = Critic /\ ContainsAny(lower(card.content), words)

\* an Assistant card of that pathway has a content of several pieces whose first has
\* one of the words
ToolCueIn(words) ==
    \E card \in Range(get_evidence_cards_for_pathway(store, call.policy_pathway.id)) :
        /\ card.agent_type = Assistant
        /\ Len(split_on_space(card.content)) > 1
        /\ ContainsAny(lower(split_on_space(card.content)[1]), words)

\* C23: the keyword strategy on a pathway with at least one card in the store gives
\* a content that starts with "Success Principle: " for the outcome 1 and with
\* "Failure Trap: " for -1; "Key success factors: " is in it only for 1,
\* "Key failure points: " and "Critical feedback: " only for -1, "Tools of note: "
\* for either, and each of them only if a card of the pathway has the cue for it.
C23_KeywordPartsByOutcome ==
    (/\ call.op = "distill"
     /\ call.llm_simulation_mode = SimpleKeywords
     /\ ~ResolvesToNothing)
        => LET content == call.insight.content
           IN  /\ call.result = 1 => StartsWith(content, InsightText.success_principle)
               /\ call.result = -1 => StartsWith(content, InsightText.failure_trap)
               /\ Contains(content, InsightText.key_success_factors)
                     => /\ call.result = 1
                        /\ CueIn({Word.success, Word.good, Word.resolved})
               /\ Contains(content, InsightText.key_failure_points)
                     => /\ call.result = -1
                        /\ CueIn({Word.fail, Word.error, Word.issue})
               /\ Contains(content, InsightText.critical_feedback)
                     => /\ call.result = -1
                        /\ CriticCueIn({Word.warning, Word.problem, Word.bad})
               /\ Contains(content, InsightText.tools_of_note)
                     => ToolCueIn({Word.tool, Word.used})

\* a failure distilled with a failure snippet, a tool name and a critical feedback
C23_Witness ==
    /\ call.op = "distill"
    /\ call.llm_simulation_mode = SimpleKeywords
    /\ call.result = -1
    /\ Contains(call.insight.content, InsightText.key_failure_points)
    /\ Contains(call.insight.content, InsightText.tools_of_note)
    /\ Contains(call.insight.content, InsightText.critical_feedback)

\* C24: the content of an insight of the keyword strategy is at most 300 characters
\* long and that of an insight of the random strategy at most 150, however long the
\* contents of the cards.
C24_ContentLengthLimits ==
    call.op = "distill"
        => /\ call.llm_simulation_mode = SimpleKeywords
                 => Len(call.insight.content) <= 300
           /\ call.llm_simulation_mode = RandomChoice
                 => Len(call.insight.content) <= 150

\* the cards of the role met when the pathways are gone through in the order of the
\* list and the cards of each, as the store resolves them, by ascending timestamp
RECURSIVE MatchingCards(_, _)
MatchingCards(pathways, agent_role) ==
    IF pathways = <<>> THEN <<>>
    ELSE LET OfRole(card) == card.agent_type = agent_role
         IN  SelectSeq(get_evidence_cards_for_pathway(store, Head(pathways).id), OfRole)
                 \o MatchingCards(Tail(pathways), agent_role)

\* the number of places of the text at which the pattern starts
Occurrences(text, pattern) ==
    Cardinality({k \in 0..(Len(text) - Len(pattern)) :
                    SubSeq(text, k + 1, k + Len(pattern)) = pattern})

\* C25: _format_evidence_for_scaffold lists only cards whose agent_type is the role
\* asked for, at most 3 over all the pathways, and the cards listed are the first
\* min(3, number of matching cards) matching cards met when the pathways are gone
\* through in list order and the cards of each in ascending timestamp order; the
\* text has one "  - Tool/Action: " line for each.
C25_FirstThreeOfRole ==
    call.op = "format_evidence_for_scaffold"
        => /\ \A k \in 1..Len(call.listed) : call.listed[k].agent_type = call.agent_role
           /\ Len(call.listed) <= 3
           /\ call.listed = Take(MatchingCards(call.pathways, call.agent_role), 3)
           /\ Occurrences(call.text, ScaffoldText.tool_action) = Len(call.listed)

\* two pathways with five cards of the Assistant and one of the Critic between them:
\* the two cards of the first pathway are listed, the later one second, then one
\* card of the second pathway
C25_Witness ==
    /\ call.op = "format_evidence_for_scaffold"
    /\ call.agent_role = Assistant
    /\ Len(call.pathways) = 2
    /\ Len(MatchingCards(call.pathways, Assistant)) > 3
    /\ CardIds(call.listed) = <<"f2", "f1", "f4">>
    /\ "f5" \in DOMAIN store.evidence

\* C26: when _format_evidence_for_scaffold has collected no card of the role (no
\* pathway, pathways without a card in the store, pathways whose cards are all of
\* other roles) its output is the "No specific examples of this type retrieved."
\* line and nothing else.
C26_NoExamplesLine ==
    (call.op = "format_evidence_for_scaffold" /\ call.listed = <<>>)
        => call.text = ScaffoldText.no_examples

\* C27: the retrieval and the briefings read only: global_co_retrieval (and with it
\* _retrieve_relevant_items_from_store on either store) and
\* generate_role_specific_prompts (and with it the three build_*_scaffold functions)
\* leave the evidence, the pathways with their linked_insight_id and the insights of
\* both stores as they were.
C27_RetrievalReadsOnly ==
    [][call'.op \in {"global_co_retrieval", "generate_role_specific_prompts"}
           => hdpm' = hdpm /\ store' = store]_vars

\* briefings built of an insight found and a card listed, the link of the pathway
\* still in place
C27_Witness ==
    /\ call.op = "generate_role_specific_prompts"
    /\ Contains(call.prompts.Planner, ScaffoldText.success_principles)
    /\ Contains(call.prompts.Assistant, ScaffoldText.tool_action)
    /\ \E p \in DOMAIN hdpm.positive_memory.pathways :
           hdpm.positive_memory.pathways[p].linked_insight_id # None

\* C29: in every state reached by add_evidence_card, add_policy_pathway (of pathways
\* built without link) and add_insight calls on a store, an id added again with
\* other fields included, every pathway whose linked_insight_id is not None names
\* an insight of the same store whose source_pathway_id is the pathway's id.
C29_LinkIntegrity ==
    \A m \in Stores : \A p \in DOMAIN hdpm[m].pathways :
        hdpm[m].pathways[p].linked_insight_id # None
            => \E k \in 1..Len(hdpm[m].insights) :
                   /\ hdpm[m].insights[k].id = hdpm[m].pathways[p].linked_insight_id
                   /\ hdpm[m].insights[k].source_pathway_id = p

\* the normalized term of each of the ScoreWords, and the normalized terms of the
\* two contents
ExpectedTerm ==
    << <<"a", "l", "p", "h", "a">>,
       <<"a", "l", "p", "h", "a">>,
       <<"f", "o", "l", "d">>,
       <<"s", "u", "p", "e", "r", "f", "o", "l", "d">>,
       <<"s", "u", "p", "e", "r">>,
       <<"h", "e", "l", "i", "x">> >>

ExpectedContentTerms(content) ==
    IF content = ContentSuperFold
    THEN {ExpectedTerm[4], <<"p", "r", "o", "t", "e", "i", "n">>, ExpectedTerm[1]}
    ELSE {ExpectedTerm[1], ExpectedTerm[6], ExpectedTerm[3]}

\* C28: the score of an insight is the number of distinct normalized terms the query
\* and the content share (lowercase, characters other than word characters,
\* whitespace and hyphen removed, hyphens separating, split on whitespace): the order
\* of the words, a word twice and the case do not change it, a part of a word counts
\* for nothing, and a query that shares no term with any insight returns two empty
\* lists.
C28_ScoreCountsSharedTerms ==
    (call.op = "retrieve" /\ "words" \in DOMAIN call)
        => LET expected == {ExpectedTerm[call.words[k]] : k \in 1..Len(call.words)}
               Shared(k) == expected \cap ExpectedContentTerms(store.insights[k].content)
           IN  /\ call.query_terms = expected
               /\ \A k \in 1..Len(store.insights) :
                      call.scores[k] = Cardinality(Shared(k))
               /\ (\A k \in 1..Len(store.insights) : Shared(k) = {})
                      => call.result.insights = <<>> /\ call.result.pathways = <<>>

\* the query "Super-ALPHA." against "SuperFold: protein Alpha.": one shared term
C28_Witness ==
    /\ call.op = "retrieve"
    /\ "words" \in DOMAIN call
    /\ call.words = <<5, 2>>
    /\ Contains(call.query, <<"-">>)
    /\ Len(store.insights) = 2
    /\ store.insights[1].content = ContentSuperFold
    /\ call.scores[1] = 1
    /\ Len(call.result.insights) = 2

\* each pathway of the store names stored cards only, each insight a stored pathway
Resolvable(s) ==
    /\ \A pathway_id \in DOMAIN s.pathways :
           \A k \in 1..Len(s.pathways[pathway_id].evidence_card_ids) :
               has_evidence_card(s, s.pathways[pathway_id].evidence_card_ids[k])
    /\ \A k \in 1..Len(s.insights) : has_policy_pathway(s, s.insights[k].source_pathway_id)

\* each pathway of the store is linked to one insight of the store, which names it,
\* and each insight is the one its pathway is linked to
OneToOne(s) ==
    /\ Len(s.insights) = Cardinality(DOMAIN s.pathways)
    /\ Cardinality(InsightIds(s)) = Len(s.insights)
    /\ \A pathway_id \in DOMAIN s.pathways :
           \E k \in 1..Len(s.insights) :
               /\ s.insights[k].id = LinkOf(s, pathway_id)
               /\ s.insights[k].source_pathway_id = pathway_id
    /\ \A k \in 1..Len(s.insights) :
           LinkOf(s, s.insights[k].source_pathway_id) = s.insights[k].id

\* C30: in every state during or after any sequence of update_memory calls on an
\* empty HDPM, between the add_* steps of a call included, every pathway of a store
\* has all its evidence ids in that store and every insight of a store has its source
\* pathway in that store; between calls the insights and the pathways of each store
\* are in one-to-one correspondence, and the pathway a call returns is linked to the
\* insight the call distilled from it.
C30_IntegrityUnderReflection ==
    /\ Resolvable(hdpm.positive_memory)
    /\ Resolvable(hdpm.negative_memory)
    /\ ("at" \in DOMAIN call => call.at = "return")
           => /\ OneToOne(hdpm.positive_memory)
              /\ OneToOne(hdpm.negative_memory)
              /\ (call.op = "update_memory" /\ "at" \in DOMAIN call /\ call.insight # <<>>)
                     => /\ call.pathway[1].linked_insight_id = call.insight[1].id
                        /\ call.insight[1].source_pathway_id = call.pathway[1].id

\* a second call on the same store stands between add_policy_pathway and add_insight:
\* two pathways of two cards, the insight of the first
C30_Witness ==
    /\ call.op = "update_memory"
    /\ "at" \in DOMAIN call
    /\ call.at = "add_insight"
    /\ call.result = 1
    /\ Len(call.evidence_cards) = 2
    /\ Cardinality(DOMAIN hdpm.positive_memory.pathways) = 2
    /\ Cardinality(DOMAIN hdpm.positive_memory.evidence) = 4
    /\ Len(hdpm.positive_memory.insights) = 1

====
